---- MODULE Spec2Model ----
(***************************************************************************)
(* Geometric model compiler of DodecaRGB-firmware (util/generate_model.py,  *)
(* util/dodeca_core.py, util/matrix3d.py).                                  *)
(*                                                                          *)
(* Numbers.  The Python code computes in IEEE doubles.  Here a matrix entry *)
(* is an integer that stands for entry * Scale (fixed point), a length is   *)
(* an integer number of millimetres, and an angle is an integer number of   *)
(* hundredths of a degree.  cos and sin are tabulated for the angles the    *)
(* program uses.  Every product is rounded to the nearest integer.          *)
(***************************************************************************)
EXTENDS Integers, Sequences, FiniteSets, TLC

VARIABLES
    \* ---- util/matrix3d.py: one Matrix3D engine --------------------------
    m,            \* Matrix3D.m, the current 4x4 matrix
    stack,        \* Matrix3D.stack, the saved matrices (last = top)
    raised,       \* TRUE iff the last engine call raised an exception
    lastOp,       \* name of the last engine call
    nops,         \* number of engine calls made so far
    marks,        \* history: for every open push, the matrix and depth at the push
    lastMark,     \* history: the mark closed by the last successful pop
    applied,      \* history: the transforming calls that made the current matrix, in call order
    \* ---- util/generate_model.py: one run of the pipeline ----------------
    config,       \* the parsed YAML document (faces and face_types)
    pc,           \* position of main(), or the call the caller made last
    faces,        \* ModelDefinition.faces (each with its leds list)
    leds,         \* ModelDefinition.leds, the global LED list
    pcb_points,   \* DodecaModel._pcb_points (<<>> is None, else <<the list>>)
    edges,        \* the edge table of the last export (<<>> before, else <<the table>>)
    output,       \* the output file: "none", "empty", "cpp", "json" or "cpp_partial"
    err,          \* the exception raised by the last call (<<>> if none, else <<it>>)
    ncalls,       \* number of DodecaModel calls made so far
    \* ---- util/parameters: one call of create_parameter -------------------
    param         \* the Parameter it returned (<<>> before, or when it raised)

matrixVars == <<m, stack, raised, lastOp, nops, marks, lastMark, applied>>
modelVars == <<config, pc, faces, leds, pcb_points, edges, output, err, ncalls, param>>
vars == <<m, stack, raised, lastOp, nops, marks, lastMark, applied, config, pc, faces, leds, pcb_points, edges, output, err, ncalls, param>>

\* A Python Optional value is a sequence of length at most one: <<>> is None,
\* <<v>> is the value v.

\* A Python list built by a comprehension: the function k |-> f[k] on 1..n
\* as a sequence whose elements are computed once
List(f) == f \o <<>>

(***************************************************************************)
(* Fixed-point arithmetic and trigonometry                                  *)
(***************************************************************************)

\* 1.0 as a matrix entry
Scale == 1000

\* math.pi, in hundredths of a degree
PI == 18000

TWO_PI == 2 * PI

\* Rotation between faces
zv == TWO_PI \div 20

\* Rotation for pentagon points
ro == TWO_PI \div 5

\* angle between faces: 1.1071 rad = 63.43 degrees
xv == 6343

\* Base radius for pentagon faces
radius == 200

\* radius*1.31, the distance of a face from the centre
face_distance == (radius * 131) \div 100

\* n / Scale rounded to the nearest integer
Round(n) == (n + Scale \div 2) \div Scale

\* cos of an angle in the first quadrant, times Scale
CosQ(a) ==
    CASE a = 0 -> 1000
      [] a = 1800 -> 951
      [] a = 2657 -> 894
      [] a = 3000 -> 866
      [] a = 3600 -> 809
      [] a = 5400 -> 588
      [] a = 6000 -> 500
      [] a = 6343 -> 447
      [] a = 7200 -> 309
      [] a = 9000 -> 0

\* cos of an angle in 0..PI, times Scale
CosH(h) == IF h > PI \div 2 THEN 0 - CosQ(PI - h) ELSE CosQ(h)

\* cos of an angle in 0..TWO_PI, times Scale
CosR(r) == CosH(IF r > PI THEN TWO_PI - r ELSE r)

\* math.cos, times Scale
Cos(a) == CosR(a % TWO_PI)

\* math.sin, times Scale
Sin(a) == Cos(a - PI \div 2)

(***************************************************************************)
(* util/matrix3d.py                                                         *)
(***************************************************************************)

Identity ==
    << <<Scale, 0, 0, 0>>,
       <<0, Scale, 0, 0>>,
       <<0, 0, Scale, 0>>,
       <<0, 0, 0, Scale>> >>

\* A faulty product with the factors exchanged: the sum over k of
\* b[i][k] * a[k][j]
matrix_entry_exchanged(a, b, i, j) ==
    Round(b[i][1] * a[1][j] + b[i][2] * a[2][j] + b[i][3] * a[3][j] + b[i][4] * a[4][j])

\* result[i][j], the sum over k of a[i][k] * b[k][j]
matrix_entry(a, b, i, j) ==
    Round(a[i][1] * b[1][j] + a[i][2] * b[2][j] + a[i][3] * b[3][j] + a[i][4] * b[4][j])

\* Row i of the product
matrix_row(a, b, i) == List([j \in 1..4 |-> matrix_entry(a, b, i, j)])

_multiply_matrices(a, b) == List([i \in 1..4 |-> matrix_row(a, b, i)])

\* The rotation matrix of rotate_x for cos c and sin s
rot_x(c, s) ==
    << <<Scale, 0, 0, 0>>,
       <<0, c, 0 - s, 0>>,
       <<0, s, c, 0>>,
       <<0, 0, 0, Scale>> >>

rotate_x(mat, angle) == _multiply_matrices(mat, rot_x(Cos(angle), Sin(angle)))

\* The rotation matrix of rotate_z for cos c and sin s
rot_z(c, s) ==
    << <<c, 0 - s, 0, 0>>,
       <<s, c, 0, 0>>,
       <<0, 0, Scale, 0>>,
       <<0, 0, 0, Scale>> >>

rotate_z(mat, angle) == _multiply_matrices(mat, rot_z(Cos(angle), Sin(angle)))

\* The rotation matrix of rotate_y for cos c and sin s
rot_y(c, s) ==
    << <<c, 0, s, 0>>,
       <<0, Scale, 0, 0>>,
       <<0 - s, 0, c, 0>>,
       <<0, 0, 0, Scale>> >>

rotate_y(mat, angle) == _multiply_matrices(mat, rot_y(Cos(angle), Sin(angle)))

\* The matrix trans of translate
trans_matrix(x, y, z) ==
    << <<Scale, 0, 0, x * Scale>>,
       <<0, Scale, 0, y * Scale>>,
       <<0, 0, Scale, z * Scale>>,
       <<0, 0, 0, Scale>> >>

translate(mat, x, y, z) == _multiply_matrices(mat, trans_matrix(x, y, z))

\* Matrix3D.apply: the point is homogeneous with w = 1.0, w is discarded
apply(mat, point) ==
    << Round(point[1] * mat[1][1] + point[2] * mat[1][2] + point[3] * mat[1][3] + mat[1][4]),
       Round(point[1] * mat[2][1] + point[2] * mat[2][2] + point[3] * mat[2][3] + mat[2][4]),
       Round(point[1] * mat[3][1] + point[2] * mat[3][2] + point[3] * mat[3][3] + mat[3][4]) >>

\* push_matrix: the stack after appending a copy of the current matrix
push_matrix(mat, stk) == Append(stk, mat)

\* A faulty pop_matrix that also refuses to pop the last saved matrix
pop_matrix_raises_early(stk) == Len(stk) <= 1

\* pop_matrix raises Exception("Matrix stack is empty"): "if not self.stack"
pop_matrix_raises(stk) == Len(stk) = 0

\* A faulty pop_matrix: self.stack.pop(0), the oldest saved matrix
pop_matrix_m_oldest(mat, stk) == stk[1]

\* pop_matrix on a non-empty stack: the restored matrix, self.stack.pop()
pop_matrix_m(mat, stk) == stk[Len(stk)]

\* pop_matrix on a non-empty stack: the stack left
pop_matrix_stack(mat, stk) == SubSeq(stk, 1, Len(stk) - 1)

(***************************************************************************)
(* util/dodeca_core.py                                                      *)
(***************************************************************************)

\* Constants shared between Python and C++
MAX_LED_NEIGHBORS == 7

\* A faulty side positioning that does not turn the top face over
side_positioning_flat(m0, sideNumber) ==
    IF sideNumber = 0
    THEN rotate_z(m0, 0 - zv - ro * 2)
    ELSE IF sideNumber > 0 /\ sideNumber < 6
    THEN rotate_x(rotate_z(m0, ro * sideNumber + zv - ro), xv)
    ELSE IF sideNumber >= 6 /\ sideNumber < 11
    THEN rotate_x(rotate_z(m0, ro * sideNumber - zv + ro * 3), PI - xv)
    ELSE rotate_z(m0, zv)

\* The side positioning of drawPentagon(), applied to the engine after the
\* initial rotate_x(math.pi)
side_positioning(m0, sideNumber) ==
    IF sideNumber = 0
    THEN rotate_z(m0, 0 - zv - ro * 2)
    ELSE IF sideNumber > 0 /\ sideNumber < 6
    THEN rotate_x(rotate_z(m0, ro * sideNumber + zv - ro), xv)
    ELSE IF sideNumber >= 6 /\ sideNumber < 11
    THEN rotate_x(rotate_z(m0, ro * sideNumber - zv + ro * 3), PI - xv)
    ELSE rotate_z(rotate_x(m0, PI), zv)

\* A faulty hemisphere rotation that turns the top half as the bottom half
hemisphere_rotation_bottom(m0, sideNumber) == rotate_z(m0, 0 - zv)

\* The additional hemisphere rotation, applied after the move out to radius
hemisphere_rotation(m0, sideNumber) ==
    IF sideNumber >= 6 /\ sideNumber < 11
    THEN rotate_z(m0, zv)
    ELSE rotate_z(m0, 0 - zv)

\* The engine after the initial transform, the side positioning, the move
\* out to radius and the hemisphere rotation (lines 65-90)
placed_matrix(sideNumber) ==
    hemisphere_rotation(
        translate(side_positioning(rotate_x(Identity, PI), sideNumber), 0, 0, face_distance),
        sideNumber)

\* The engine of transform_led_point just before the point is applied:
\* the side rotation and the LED-specific transform (lines 92-96)
led_matrix(sideNumber, rotation) ==
    rotate_z(rotate_z(placed_matrix(sideNumber), ro * rotation), 0 - PI \div 10)

\* Negate Y and Z to match Processing's coordinate system
negate_yz(result) == <<result[1], 0 - result[2], 0 - result[3]>>

transform_led_point(x, y, num, sideNumber, rotation) ==
    negate_yz(apply(led_matrix(sideNumber, rotation), <<x, y, 0>>))

\* LED position scaling factor 5.15, applied to a length in millimetres
scale(v) == (v * 515 + 50) \div 100

\* The rows of the pick-and-place file after the header, in file order:
\* the designator (is it an LED reference, and its number), Mid X, Mid Y,
\* and whether float() and int() accept the fields of the row (ok)
PcbRow(k) ==
    CASE k = 1 -> [is_led |-> TRUE, designator |-> 2, mid_x |-> 10, mid_y |-> 0, ok |-> TRUE]
      [] k = 2 -> [is_led |-> FALSE, designator |-> 1, mid_x |-> 3, mid_y |-> 3, ok |-> TRUE]
      [] k = 3 -> [is_led |-> TRUE, designator |-> 1, mid_x |-> 0, mid_y |-> 0, ok |-> TRUE]
      [] k = 4 -> [is_led |-> TRUE, designator |-> 3, mid_x |-> 0, mid_y |-> 12, ok |-> TRUE]
      [] k = 5 -> [is_led |-> TRUE, designator |-> 4, mid_x |-> 0, mid_y |-> 0 - 12, ok |-> TRUE]
      [] k = 6 -> [is_led |-> TRUE, designator |-> 5, mid_x |-> 0 - 10, mid_y |-> 0, ok |-> TRUE]
      [] k = 7 -> [is_led |-> TRUE, designator |-> 6, mid_x |-> 10, mid_y |-> 0, ok |-> TRUE]
      [] k = 8 -> [is_led |-> TRUE, designator |-> 7, mid_x |-> 5, mid_y |-> 5, ok |-> TRUE]
      [] k = 9 -> [is_led |-> TRUE, designator |-> 8, mid_x |-> 0 - 5, mid_y |-> 5, ok |-> TRUE]
      [] k = 10 -> [is_led |-> TRUE, designator |-> 9, mid_x |-> 5, mid_y |-> 0 - 5, ok |-> TRUE]
      [] k = 11 -> [is_led |-> TRUE, designator |-> 10, mid_x |-> 0 - 5, mid_y |-> 0 - 5, ok |-> TRUE]
      [] k = 12 -> [is_led |-> TRUE, designator |-> 11, mid_x |-> 0, mid_y |-> 5, ok |-> TRUE]
      [] OTHER -> [is_led |-> TRUE, designator |-> k - 1, mid_x |-> 0 - 2 * k, mid_y |-> k, ok |-> TRUE]

RECURSIVE parse_rows(_, _)
\* The loop of load_pcb_points over the data rows from row i on
parse_rows(rows, i) ==
    IF i > Len(rows) THEN <<>>
    ELSE IF rows[i].is_led
    THEN <<[x |-> scale(rows[i].mid_x), y |-> scale(rows[i].mid_y), num |-> rows[i].designator - 1]>>
         \o parse_rows(rows, i + 1)
    ELSE parse_rows(rows, i + 1)

\* load_pcb_points on an existing file that it parses to the end
load_pcb_points(file) == parse_rows(file.rows, 1)

\* The LED rows with a field that float() or int() refuses, lines 173-186
malformed_rows(rows) == {i \in 1..Len(rows) : rows[i].is_led /\ ~rows[i].ok}

\* A faulty load_pcb_points that takes every LED row as it is
load_pcb_raises_never(file) == FALSE

\* load_pcb_points re-raises the ValueError of the first such row, line 194
load_pcb_raises(file) == malformed_rows(file.rows) # {}

\* The exception load_pcb_points raises: the file is missing (line 124), or
\* the row with the line number given (the header is line 1) does not parse
load_pcb_error(file) ==
    IF ~file.exists THEN [kind |-> "FileNotFoundError"]
    ELSE [kind |-> "ValueError",
          line |-> 1 + (CHOOSE i \in malformed_rows(file.rows) :
                            \A j \in malformed_rows(file.rows) : i <= j)]

(***************************************************************************)
(* util/generate_model.py: ModelDefinition                                  *)
(***************************************************************************)

\* A faulty get_geometric_id: "self.remap_to or self.id", which takes
\* remap_to = 0 for absent
get_geometric_id_truthy(face) ==
    IF face.remap_to # <<>> /\ face.remap_to[1] # 0 THEN face.remap_to[1] ELSE face.id

\* Face.get_geometric_id: remap_to if it is not None (0 included), else id
get_geometric_id(face) ==
    IF face.remap_to # <<>> THEN face.remap_to[1] ELSE face.id

\* ModelDefinition._load_faces, lines 184-194: one Face per entry, in
\* configuration order, each with an empty leds list
_load_faces(cfg) ==
    List([i \in 1..Len(cfg.faces) |->
            [id |-> cfg.faces[i].id,
             type |-> cfg.faces[i].type,
             rotation |-> cfg.faces[i].rotation,
             remap_to |-> cfg.faces[i].remap_to,
             leds |-> <<>>]])

\* all_face_ids = {face.id for face in self.faces}
all_face_ids(fs) == {fs[i].id : i \in 1..Len(fs)}

\* A faulty validation without the check against all_face_ids
invalid_face_id_unchecked(fs, i) == FALSE

\* The check of one face against all_face_ids, lines 211-214
invalid_face_id(fs, i) == get_geometric_id(fs[i]) \notin all_face_ids(fs)

\* A faulty validation without the check against geometric_positions
duplicate_position_unchecked(fs, i) == FALSE

\* The check of one face against geometric_positions, lines 216-220: the
\* dictionary holds the faces before i, which the loop has accepted
duplicate_position(fs, i) ==
    \E j \in 1..(i - 1) : get_geometric_id(fs[j]) = get_geometric_id(fs[i])

\* A faulty duplicate report that names the face at hand twice
other_face_same(fs, i) == fs[i]

\* geometric_positions[geometric_id] when the duplicate check fires
other_face(fs, i) ==
    fs[CHOOSE j \in 1..(i - 1) : get_geometric_id(fs[j]) = get_geometric_id(fs[i])]

\* The check after the loop, lines 224-230
missing_positions(fs) ==
    all_face_ids(fs) \ {get_geometric_id(fs[i]) : i \in 1..Len(fs)}

RECURSIVE validate_loop(_, _)
\* The loop of _validate_remapping from face i on, and the check after it:
\* <<>> when nothing is raised, else <<the ValueError>>
validate_loop(fs, i) ==
    IF i > Len(fs)
    THEN IF missing_positions(fs) # {}
         THEN <<[kind |-> "missing_positions", missing |-> missing_positions(fs)]>>
         ELSE <<>>
    ELSE IF invalid_face_id(fs, i)
    THEN <<[kind |-> "invalid_face_id", face |-> fs[i].id,
            remap_to |-> fs[i].remap_to, valid |-> all_face_ids(fs)]>>
    ELSE IF duplicate_position(fs, i)
    THEN <<[kind |-> "duplicate_position", position |-> get_geometric_id(fs[i]),
            first |-> other_face(fs, i).id, second |-> fs[i].id]>>
    ELSE validate_loop(fs, i + 1)

\* A faulty ModelDefinition that does not validate the remapping
_validate_remapping_skipped(fs) == <<>>

\* ModelDefinition._validate_remapping
_validate_remapping(fs) == IF fs = <<>> THEN <<>> ELSE validate_loop(fs, 1)

\* ModelDefinition.__init__: the faces of the object and the exception
\* raised, if any (then no object is produced)
model_definition(fs, e) == [faces |-> IF e = <<>> THEN fs ELSE <<>>, err |-> e]

ModelDefinition(cfg) == model_definition(_load_faces(cfg), _validate_remapping(_load_faces(cfg)))

(***************************************************************************)
(* util/generate_model.py: DodecaModel                                      *)
(***************************************************************************)

RECURSIVE sqrt_search(_, _, _)
\* The least r in lo+1..hi with r*r >= n, given lo*lo < n <= hi*hi
sqrt_search(n, lo, hi) ==
    IF hi - lo <= 1 THEN hi
    ELSE IF ((lo + hi) \div 2) * ((lo + hi) \div 2) >= n
    THEN sqrt_search(n, lo, (lo + hi) \div 2)
    ELSE sqrt_search(n, (lo + hi) \div 2, hi)

\* math.sqrt rounded up: comparisons "sqrt(n) <= t" with an integer t are
\* decided as for the real square root
sqrt_up(n) == IF n = 0 THEN 0 ELSE sqrt_search(n, 0, 46340)

\* r, the square root of n rounded up, rounded down instead
round_down(n, r) == IF r * r = n THEN r ELSE r - 1

\* math.sqrt rounded down: comparisons "sqrt(n) < t" with an integer t are
\* decided as for the real square root
sqrt_down(n) == round_down(n, sqrt_up(n))

\* (p.x - q.x)**2 + (p.y - q.y)**2 + (p.z - q.z)**2
squared_distance(p, q) ==
    (p[1] - q[1]) * (p[1] - q[1]) + (p[2] - q[2]) * (p[2] - q[2]) + (p[3] - q[3]) * (p[3] - q[3])

\* Point3D.distance_to.  A distance d is held as the integer d * d, which
\* orders and compares as d does (math.sqrt is strictly increasing on the
\* integers), so that sorting and the radius test decide as the code does
distance_to(p, q) == squared_distance(p, q)

\* max_distance: float = 100, held as its square
max_distance == 100 * 100

\* distances.sort(key=lambda x: x.distance) keeps equal keys in their order:
\* x goes behind the k elements whose distance is not larger
insert_at(sorted, x, k) ==
    SubSeq(sorted, 1, k) \o <<x>> \o SubSeq(sorted, k + 1, Len(sorted))

\* A faulty sort that puts x before the elements of equal distance
insert_by_distance_unstable(sorted, x) ==
    insert_at(sorted, x, Cardinality({i \in 1..Len(sorted) : sorted[i].distance < x.distance}))

insert_by_distance(sorted, x) ==
    insert_at(sorted, x, Cardinality({i \in 1..Len(sorted) : sorted[i].distance <= x.distance}))

RECURSIVE sort_by_distance(_, _)
\* The first n elements of seq, sorted
sort_by_distance(seq, n) ==
    IF n = 0 THEN <<>> ELSE insert_by_distance(sort_by_distance(seq, n - 1), seq[n])

\* A faulty _calculate_neighbors that keeps the whole sorted list
first_neighbors_all(seq) == seq

\* distances[:MAX_LED_NEIGHBORS]
first_neighbors(seq) ==
    SubSeq(seq, 1, IF Len(seq) < MAX_LED_NEIGHBORS THEN Len(seq) ELSE MAX_LED_NEIGHBORS)

\* The Neighbor records of the LEDs at the kept positions, in list order
neighbor_records(ledlist, i, kept) ==
    List([k \in 1..Len(kept) |->
            [led_number |-> ledlist[kept[k]].index,
             distance |-> distance_to(ledlist[i].position, ledlist[kept[k]].position)]])

\* The distances list built for LED i, lines 440-445: the other LEDs
\* within max_distance, in list order
candidate_neighbors(ledlist, i) ==
    neighbor_records(ledlist, i,
        SelectSeq(List([j \in 1..Len(ledlist) |-> j]),
                  LAMBDA j : /\ ledlist[i].index # ledlist[j].index
                             /\ distance_to(ledlist[i].position, ledlist[j].position)
                                    <= max_distance))

\* The sorted and truncated list, lines 447-448
sorted_neighbors(distances) == first_neighbors(sort_by_distance(distances, Len(distances)))

\* DodecaModel._calculate_neighbors: every LED gets its neighbors list
_calculate_neighbors(ledlist) ==
    List([i \in 1..Len(ledlist) |->
            [ledlist[i] EXCEPT !.neighbors = <<sorted_neighbors(candidate_neighbors(ledlist, i))>>]])

\* A faulty generate_model that places a face at its logical id
new_led_at_logical(face, led, n) ==
    [index |-> n,
     position |-> transform_led_point(led.x, led.y, led.num, face.id, face.rotation),
     label |-> led.num + 1,
     face_id |-> face.id,
     neighbors |-> <<>>]

\* A faulty generate_model that stores the geometric id in the LED
new_led_geometric(face, led, n) ==
    [index |-> n,
     position |-> transform_led_point(led.x, led.y, led.num, get_geometric_id(face), face.rotation),
     label |-> led.num + 1,
     face_id |-> get_geometric_id(face),
     neighbors |-> <<>>]

\* The LED created for a PCB point, lines 262-268, when the global list
\* holds n LEDs
new_led(face, led, n) ==
    [index |-> n,
     position |-> transform_led_point(led.x, led.y, led.num, get_geometric_id(face), face.rotation),
     label |-> led.num + 1,
     face_id |-> face.id,
     neighbors |-> <<>>]

\* A faulty generate_model that numbers the LEDs of every face from 0
face_leds_local(face, points, n) ==
    List([k \in 1..Len(points) |-> new_led(face, points[k], k - 1)])

\* The LEDs created for one face, in the order of the PCB points
face_leds(face, points, n) ==
    List([k \in 1..Len(points) |-> new_led(face, points[k], n + k - 1)])

\* The faces after face i got the created LEDs appended to its leds list
with_leds(fs, i, created) ==
    [fs EXCEPT ![i].leds = @ \o List([k \in 1..Len(created) |-> created[k].index])]

RECURSIVE generate_leds(_, _, _, _, _)
\* The result of the loop over the faces, given the LEDs created for face i
generate_next(fs, ledlist, points, face_types, i, created) ==
    generate_leds(with_leds(fs, i, created), ledlist \o created, points, face_types, i + 1)

\* The loop of generate_model over the faces from face i on, lines 257-270.
\* A face whose type is not in face_types raises KeyError at line 258; the
\* LEDs appended for the faces before it stay.
generate_leds(fs, ledlist, points, face_types, i) ==
    IF i > Len(fs) THEN [faces |-> fs, leds |-> ledlist, err |-> <<>>]
    ELSE IF fs[i].type \notin DOMAIN face_types
    THEN [faces |-> fs, leds |-> ledlist, err |-> <<[kind |-> "KeyError", key |-> fs[i].type]>>]
    ELSE generate_next(fs, ledlist, points, face_types, i,
                       face_leds(fs[i], points, Len(ledlist)))

\* The end of generate_model, line 273, given the result g of the loop
with_neighbors(g) ==
    IF g.err # <<>> THEN g
    ELSE [faces |-> g.faces, leds |-> _calculate_neighbors(g.leds), err |-> <<>>]

\* DodecaModel.generate_model: the faces, the global LED list and the
\* exception raised, if any.  "not self._pcb_points" holds for None and for
\* an empty list.
generate_model(fs, ledlist, points, face_types) ==
    IF points = <<>> \/ points[1] = <<>>
    THEN [faces |-> fs, leds |-> ledlist,
          err |-> <<[kind |-> "RuntimeError", text |-> "PCB data must be loaded first"]>>]
    ELSE with_neighbors(generate_leds(fs, ledlist, points[1], face_types, 1))

\* The least element of a non-empty set of integers
least(S) == CHOOSE i \in S : \A j \in S : i <= j

\* DodecaModel._get_rotation_for_geometric_id: the rotation of the first
\* face of the list at that geometric position, 0 if there is none
_get_rotation_for_geometric_id(fs, geometric_id) ==
    IF \A i \in 1..Len(fs) : get_geometric_id(fs[i]) # geometric_id THEN 0
    ELSE fs[least({i \in 1..Len(fs) : get_geometric_id(fs[i]) = geometric_id})].rotation

\* One vertex of the regular polygon in local space, lines 292-295
base_vertex(angle) == <<Round(radius * Cos(angle)), Round(radius * Sin(angle)), 0>>

\* The regular polygon in local space, lines 289-295
base_vertices(num_sides) ==
    List([k \in 1..num_sides |-> base_vertex((k - 1) * (TWO_PI \div num_sides))])

\* The engine that places the boundary polygon, lines 298-325
vertex_matrix(fs, geometric_id) ==
    rotate_z(placed_matrix(geometric_id), ro * _get_rotation_for_geometric_id(fs, geometric_id))

\* The base vertices through the engine, lines 331-334
transform_vertices(mat, base) ==
    List([k \in 1..Len(base) |-> negate_yz(apply(mat, base[k]))])

\* The world-space vertices of a face whose type is known, lines 286-334
face_vertices(fs, face, face_types) ==
    transform_vertices(vertex_matrix(fs, get_geometric_id(face)),
                       base_vertices(face_types[face.type].num_sides))

\* distance_3d of the edge matching, in millimetres
distance_3d(p1, p2) == sqrt_down(squared_distance(p1, p2))

\* mm tolerance for edge matching
edge_tolerance == 10

\* A faulty matching that only tests the forward direction
segments_match_forward(start_vertex, end_vertex, other_start, other_end) ==
    /\ distance_3d(start_vertex, other_start) < edge_tolerance
    /\ distance_3d(end_vertex, other_end) < edge_tolerance

\* The forward or the reverse match of two segments, lines 412-422
segments_match(start_vertex, end_vertex, other_start, other_end) ==
    \/ /\ distance_3d(start_vertex, other_start) < edge_tolerance
       /\ distance_3d(end_vertex, other_end) < edge_tolerance
    \/ /\ distance_3d(start_vertex, other_end) < edge_tolerance
       /\ distance_3d(end_vertex, other_start) < edge_tolerance

\* Does some edge of the polygon match the segment, lines 404-422
polygon_matches(other_vertices, start_vertex, end_vertex) ==
    \E j \in 1..Len(other_vertices) :
        segments_match(start_vertex, end_vertex,
                       other_vertices[j], other_vertices[(j % Len(other_vertices)) + 1])

RECURSIVE find_connected_face_position(_, _, _, _, _, _)
\* A faulty scan that records the list position of the matching face
find_connected_face_position(fs, face, face_types, start_vertex, end_vertex, k) ==
    IF k > Len(fs) THEN [err |-> <<>>, id |-> 0 - 1]
    ELSE IF fs[k].id = face.id
    THEN find_connected_face_position(fs, face, face_types, start_vertex, end_vertex, k + 1)
    ELSE IF fs[k].type \notin DOMAIN face_types
    THEN [err |-> <<[kind |-> "KeyError", key |-> fs[k].type]>>, id |-> 0 - 1]
    ELSE IF polygon_matches(face_vertices(fs, fs[k], face_types), start_vertex, end_vertex)
    THEN [err |-> <<>>, id |-> k - 1]
    ELSE find_connected_face_position(fs, face, face_types, start_vertex, end_vertex, k + 1)

RECURSIVE find_connected_face(_, _, _, _, _, _)
\* The scan of the other faces from face k on, lines 345-425: the id of the
\* first face that matches, -1 if none does; KeyError at line 349 when a
\* face of unknown type is reached first
find_connected_face(fs, face, face_types, start_vertex, end_vertex, k) ==
    IF k > Len(fs) THEN [err |-> <<>>, id |-> 0 - 1]
    ELSE IF fs[k].id = face.id
    THEN find_connected_face(fs, face, face_types, start_vertex, end_vertex, k + 1)
    ELSE IF fs[k].type \notin DOMAIN face_types
    THEN [err |-> <<[kind |-> "KeyError", key |-> fs[k].type]>>, id |-> 0 - 1]
    ELSE IF polygon_matches(face_vertices(fs, fs[k], face_types), start_vertex, end_vertex)
    THEN [err |-> <<>>, id |-> fs[k].id]
    ELSE find_connected_face(fs, face, face_types, start_vertex, end_vertex, k + 1)

\* The scans of the edges of one face, in edge order
face_scans(fs, face, face_types, vertices) ==
    List([i \in 1..Len(vertices) |->
            find_connected_face(fs, face, face_types,
                                vertices[i], vertices[(i % Len(vertices)) + 1], 1)])

\* A faulty edge list whose last edge does not return to the first vertex
face_edges_open(face, vertices, scans) ==
    List([i \in 1..Len(vertices) |->
            [face_id |-> face.id,
             edge_index |-> i - 1,
             start |-> vertices[i],
             end |-> vertices[IF i = Len(vertices) THEN i ELSE i + 1],
             connected_face_id |-> scans[i].id]])

\* The edge records of one face, lines 427-433
face_edges(face, vertices, scans) ==
    List([i \in 1..Len(vertices) |->
            [face_id |-> face.id,
             edge_index |-> i - 1,
             start |-> vertices[i],
             end |-> vertices[(i % Len(vertices)) + 1],
             connected_face_id |-> scans[i].id]])

RECURSIVE edges_from(_, _, _, _)
\* The loop from face f on, given the vertices of face f and the scans of
\* its edges
edges_next(fs, face_types, f, found, vertices, scans) ==
    IF \E i \in 1..Len(scans) : scans[i].err # <<>>
    THEN [err |-> scans[least({i \in 1..Len(scans) : scans[i].err # <<>>})].err, edges |-> <<>>]
    ELSE edges_from(fs, face_types, f + 1, found \o face_edges(fs[f], vertices, scans))

\* The scans of face f, given its vertices
edges_scan(fs, face_types, f, found, vertices) ==
    edges_next(fs, face_types, f, found, vertices, face_scans(fs, fs[f], face_types, vertices))

\* The loop of _calculate_edges_and_relationships from face f on, with the
\* edges found so far; KeyError at line 282 for a face of unknown type
edges_from(fs, face_types, f, found) ==
    IF f > Len(fs) THEN [err |-> <<>>, edges |-> found]
    ELSE IF fs[f].type \notin DOMAIN face_types
    THEN [err |-> <<[kind |-> "KeyError", key |-> fs[f].type]>>, edges |-> <<>>]
    ELSE edges_scan(fs, face_types, f, found, face_vertices(fs, fs[f], face_types))

\* DodecaModel._calculate_edges_and_relationships
_calculate_edges_and_relationships(fs, face_types) == edges_from(fs, face_types, 1, <<>>)

\* What an export leaves, given the result r of the edge calculation and
\* the output when the calculation raises
export_result(r, written, failed) ==
    IF r.err # <<>>
    THEN [err |-> r.err, edges |-> <<>>, output |-> failed]
    ELSE [err |-> <<>>, edges |-> <<r.edges>>, output |-> written]

\* A faulty export_json that leaves the faces without LEDs out of the
\* edge table
export_json_lit(fs, face_types, out) ==
    export_result(
        _calculate_edges_and_relationships(SelectSeq(fs, LAMBDA f : f.leds # <<>>), face_types),
        "json", out)

\* DodecaModel.export_json: the edges are computed before anything is
\* written, so an exception leaves the output as it was
export_json(fs, face_types, out) ==
    export_result(_calculate_edges_and_relationships(fs, face_types), "json", out)

\* The keys of the model section that export_cpp_header reads
Metadata == {"name", "description", "version"}

\* The first key of the model section that export_cpp_header does not
\* find, in the order of lines 484 (name), 488 (description), 494 (version)
missing_key(model) ==
    IF "name" \notin model THEN "name"
    ELSE IF "description" \notin model THEN "description"
    ELSE "version"

\* DodecaModel.export_cpp_header: the first lines are printed at lines
\* 466-481, before the model section is read (KeyError for a key it lacks);
\* the metadata, group, face type and face tables are printed before the
\* edges are computed at line 674
export_cpp_header(model, fs, face_types, out) ==
    IF Metadata \subseteq model
    THEN export_result(_calculate_edges_and_relationships(fs, face_types), "cpp", "cpp_partial")
    ELSE [err |-> <<[kind |-> "KeyError", key |-> missing_key(model)]>>,
          edges |-> <<>>,
          output |-> "cpp_partial"]

(***************************************************************************)
(* util/parameters                                                          *)
(***************************************************************************)

\* A string of letters is held as the letters without their case and the
\* set of the positions that hold a capital.

\* str.upper: every position holds a capital
upper(s) ==
    [letters |-> s.letters, caps |-> 1..(IF s.letters \in {"none", "wrap"} THEN 4 ELSE 5)]

\* str.title of a word of letters: the first one capital, the others small
title(s) == [letters |-> s.letters, caps |-> {1}]

\* The keys of PARAM_FLAGS and the parameter types each one allows, lines
\* 20-33 of types.py
PARAM_FLAGS ==
    [f \in {upper([letters |-> l, caps |-> {}]) : l \in {"none", "clamp", "wrap"}} |->
        CASE f.letters = "none" -> {"*"}
          [] f.letters = "clamp" -> {"ratio", "signed_ratio", "range", "count"}
          [] f.letters = "wrap" ->
                {"ratio", "signed_ratio", "range", "count", "angle", "signed_angle"}]

\* validate_yaml_structure, line 33: the title-cased flags that are not keys
\* of PARAM_FLAGS
invalid_flags(flags) == {title(flags[i]) : i \in 1..Len(flags)} \ DOMAIN PARAM_FLAGS

\* ParameterBase.validate_flags raises for the flag, lines 49-57
flag_refused(flag, param_type) ==
    \/ flag \notin DOMAIN PARAM_FLAGS
    \/ /\ flag.letters # "none"
       /\ "*" \notin PARAM_FLAGS[flag]
       /\ param_type \notin PARAM_FLAGS[flag]

\* ParameterBase.validate_flags of a SemanticParameter: the flags after it,
\* or the ValueError of the first flag it refuses
validate_flags(flags, param_type) ==
    IF flags = <<>> \/ flags[1] = <<>>
    THEN [err |-> <<>>, flags |-> <<upper([letters |-> "none", caps |-> {}])>>]
    ELSE IF \E i \in 1..Len(flags[1]) : flag_refused(flags[1][i], param_type)
    THEN [err |-> <<[kind |-> "ValueError", what |-> "flag"]>>, flags |-> <<>>]
    ELSE [err |-> <<>>, flags |-> flags[1]]

\* create_parameter for a parameter of a semantic type (ratio, angle): the
\* flags of the parameter it returns, or the exception.  The flags list is
\* None without the key flags, else the title-cased flags (line 46)
create_parameter(param_data) ==
    IF param_data.flags # <<>> /\ invalid_flags(param_data.flags[1]) # {}
    THEN [err |-> <<[kind |-> "ValueError", what |-> "unknown flags"]>>, flags |-> <<>>]
    ELSE validate_flags(
            IF param_data.flags = <<>> THEN <<>>
            ELSE <<List([i \in 1..Len(param_data.flags[1]) |-> title(param_data.flags[1][i])])>>,
            param_data.type)

(***************************************************************************)
(* Bounds and inputs                                                        *)
(***************************************************************************)

\* Largest number of face instances of a configuration
MaxFaces == 2

\* Largest number of data rows of a pick-and-place file
MaxRows == 3

\* Largest number of calls made on one Matrix3D engine
MaxOps == 6

\* Largest number of calls made on one DodecaModel by a caller other than main
MaxCalls == 3

\* The face_types section of the configuration
FaceTypeCatalog ==
    [pentagon |-> [num_leds |-> 104, num_sides |-> 5],
     triangle |-> [num_leds |-> 3, num_sides |-> 3]]

\* ModelDefinition._load_face_types: one FaceType per entry
_load_face_types(cfg) ==
    [name \in DOMAIN cfg.face_types |->
        [name |-> name,
         num_leds |-> cfg.face_types[name].num_leds,
         num_sides |-> cfg.face_types[name].num_sides]]

\* The type names a face entry may carry; "hexagon" is not in the catalogue
TypeChoices == {"pentagon", "hexagon"}

\* The rotation counts a face entry may carry
Rotations == {0, 1}

\* The entries of the faces section
FaceEntries ==
    [id : 0..(MaxFaces - 1),
     type : TypeChoices,
     rotation : Rotations,
     remap_to : {<<>>} \cup {<<g>> : g \in 0..(MaxFaces - 1)}]

\* The configurations: every list of at most MaxFaces entries with a
\* complete model section, and some with a model section that lacks keys
Configs ==
    {[faces |-> f, face_types |-> FaceTypeCatalog, model |-> Metadata] :
        f \in UNION {[1..n -> FaceEntries] : n \in 0..MaxFaces}}
    \cup {[faces |-> f, face_types |-> FaceTypeCatalog, model |-> keys] :
            f \in {<<>>,
                   <<[id |-> 0, type |-> "pentagon", rotation |-> 0, remap_to |-> <<>>]>>},
            keys \in {{"name"}, {"name", "description"}}}

\* The pick-and-place files: a missing file, and the files that hold the
\* first n data rows
PcbFiles ==
    {[exists |-> FALSE, rows |-> <<>>]}
    \cup {[exists |-> TRUE, rows |-> [k \in 1..n |-> PcbRow(k)]] : n \in 0..MaxRows}

\* A face entry of type pentagon
Pentagon(id, rotation, remap_to) ==
    [id |-> id, type |-> "pentagon", rotation |-> rotation, remap_to |-> remap_to]

\* A face entry of type triangle
Triangle(id, rotation, remap_to) ==
    [id |-> id, type |-> "triangle", rotation |-> rotation, remap_to |-> remap_to]

\* The configurations of the callers that use a DodecaModel directly: two
\* faces as listed, in wiring order or not, remapped or not, one with a
\* face of unknown type behind a known one, one that does not validate,
\* one with a three-sided face turned three times, and one without faces
ApiConfigs ==
    {[faces |-> f, face_types |-> FaceTypeCatalog, model |-> Metadata] :
        f \in {<<Pentagon(0, 0, <<>>), Pentagon(1, 0, <<>>)>>,
               <<Pentagon(0, 0, <<1>>), Pentagon(1, 1, <<0>>)>>,
               <<Pentagon(1, 0, <<>>), Pentagon(0, 1, <<>>)>>,
               <<Pentagon(0, 0, <<>>), [Pentagon(1, 0, <<>>) EXCEPT !.type = "hexagon"]>>,
               <<Pentagon(0, 0, <<1>>), Pentagon(1, 0, <<>>)>>,
               <<Pentagon(0, 1, <<>>), Triangle(1, 3, <<>>)>>,
               <<>>}}

\* Largest number of data rows of a densely populated pick-and-place file
MaxPoints == 12

\* The densely populated pick-and-place files: the rows a..b of the catalogue
DenseFiles ==
    {[exists |-> TRUE, rows |-> [k \in 1..(b - a + 1) |-> PcbRow(a + k - 1)]] :
        a \in 1..MaxPoints, b \in 1..MaxPoints}

\* The configurations of the densely populated models
DenseConfigs ==
    {[faces |-> f, face_types |-> FaceTypeCatalog, model |-> Metadata] :
        f \in {<<Pentagon(0, 0, <<>>)>>,
               <<Pentagon(0, 0, <<>>), Pentagon(1, 0, <<>>)>>,
               <<Pentagon(0, 1, <<1>>), Pentagon(1, 0, <<0>>)>>}}

\* Largest rotation count of a face of a polyhedral model
MaxTurns == 1

\* The number of sides of the dodecahedron: geometric positions 0..11
NumSides == 12

\* The face of a polyhedral model with the logical id g: the faces at the
\* bottom and at the top may be wired in exchanged positions, and the
\* faces with even ids carry the rotation count
solid_face(g, turns, exchanged) ==
    Pentagon(g,
             IF g % 2 = 0 THEN turns ELSE 0,
             IF exchanged /\ g \in {0, NumSides - 1} THEN <<NumSides - 1 - g>> ELSE <<>>)

\* The logical ids of a polyhedral model without the removed ones, in
\* ascending or in descending order
solid_ids(removed, descending) ==
    SelectSeq([k \in 1..NumSides |-> IF descending THEN NumSides - k ELSE k - 1],
              LAMBDA g : g \notin removed)

\* The faces section of a polyhedral model
solid_faces(removed, turns, descending, exchanged) ==
    List([k \in 1..Len(solid_ids(removed, descending)) |->
            solid_face(solid_ids(removed, descending)[k], turns, exchanged)])

\* The closed polyhedral models, those with one face removed, models of
\* two faces with a three-sided one, and a model of three faces with the
\* ids 10, 11 and 12
SolidConfigs ==
    {[faces |-> solid_faces(removed, turns, descending, exchanged),
      face_types |-> FaceTypeCatalog, model |-> Metadata] :
        removed \in {{}} \cup {{g} : g \in 0..(NumSides - 1)},
        turns \in 0..MaxTurns,
        descending \in BOOLEAN,
        exchanged \in BOOLEAN}
    \cup {[faces |-> f, face_types |-> FaceTypeCatalog, model |-> Metadata] :
            f \in UNION {{<<Pentagon(0, turns, <<>>), Triangle(1, turns, <<>>)>>,
                          <<Triangle(1, turns, <<0>>), Pentagon(0, 0, <<1>>)>>,
                          <<Triangle(0, 0, <<>>), Triangle(1, turns, <<>>)>>,
                          <<Pentagon(10, 0, <<>>), Pentagon(11, 0, <<>>), Pentagon(12, turns, <<>>)>>} :
                         turns \in 0..MaxTurns}}

\* The rows of the files given to load_pcb_points directly: three LED
\* rows, a row of another part, a row of another part with a field that is
\* not a number, and an LED row with such a field
CoreRows ==
    {PcbRow(1), PcbRow(2), PcbRow(3), PcbRow(4),
     [is_led |-> FALSE, designator |-> 1, mid_x |-> 0, mid_y |-> 0, ok |-> FALSE],
     [is_led |-> TRUE, designator |-> 4, mid_x |-> 0, mid_y |-> 0, ok |-> FALSE]}

\* The files given to load_pcb_points directly: a missing file, and every
\* file of at most MaxRows of these rows
CoreFiles ==
    {[exists |-> FALSE, rows |-> <<>>]}
    \cup {[exists |-> TRUE, rows |-> r] : r \in UNION {[1..n -> CoreRows] : n \in 0..MaxRows}}

\* Largest number of flags of a parameter
MaxFlags == 2

\* The parameter definitions: a semantic type, and no flags key or a list
\* of at most MaxFlags flags; the flag names are the three flags and an
\* unknown one, in small letters, capitalised and in capitals
ParamData ==
    {[type |-> t, flags |-> f] :
        t \in {"ratio", "angle"},
        f \in {<<>>} \cup
              {<<l>> : l \in UNION {[1..n -> {w \in [letters : {"none", "clamp", "wrap", "bogus"},
                                                       caps : {{}, {1}, 1..4, 1..5}] :
                                                  w.caps \subseteq upper(w).caps}] :
                                    n \in 0..MaxFlags}}}

\* The angles and shifts given to the engine
MatrixAngles == {PI \div 2}

MatrixShifts == {<<1, 0, 0>>}

\* The points the engine is applied to
MatrixPoints == {<<0, 0, 0>>, <<1, 0, 0>>, <<10, 20, 0>>}

(***************************************************************************)
(* One run of main(), lines 873-918                                         *)
(***************************************************************************)

InitEngine ==
    /\ m = Identity
    /\ stack = <<>>
    /\ raised = FALSE
    /\ lastOp = "init"
    /\ nops = 0
    /\ marks = <<>>
    /\ lastMark = <<>>
    /\ applied = <<>>

InitModel(cfgs) ==
    /\ config \in cfgs
    /\ pc = "start"
    /\ faces = <<>>
    /\ leds = <<>>
    /\ pcb_points = <<>>
    /\ edges = <<>>
    /\ output = "none"
    /\ err = <<>>
    /\ ncalls = 0
    /\ param = <<>>

Init == InitEngine /\ InitModel(Configs)

\* The state after ModelDefinition.__init__ returned or raised r
Constructed(r, ok, failed) ==
    /\ faces' = r.faces
    /\ err' = r.err
    /\ pc' = IF r.err = <<>> THEN ok ELSE failed
    /\ UNCHANGED <<config, param, leds, pcb_points, edges, output>>
    /\ UNCHANGED matrixVars

\* The state after load_pcb_data of a file returned (ok) or raised (failed)
PcbLoaded(file, ok, failed) ==
    /\ pcb_points' = IF file.exists /\ ~load_pcb_raises(file)
                      THEN <<load_pcb_points(file)>> ELSE pcb_points
    /\ err' = IF file.exists /\ ~load_pcb_raises(file) THEN <<>> ELSE <<load_pcb_error(file)>>
    /\ pc' = IF file.exists /\ ~load_pcb_raises(file) THEN ok ELSE failed
    /\ UNCHANGED <<config, param, faces, leds, edges, output>>
    /\ UNCHANGED matrixVars

\* The state after generate_model returned or raised r
Generated(r, ok, failed) ==
    /\ faces' = r.faces
    /\ leds' = r.leds
    /\ err' = r.err
    /\ pc' = IF r.err = <<>> THEN ok ELSE failed
    /\ UNCHANGED <<config, param, pcb_points, edges, output>>
    /\ UNCHANGED matrixVars

\* The state after an export returned or raised r; an export that raises
\* leaves the edge table of the caller as it was
Exported(r, ok, failed) ==
    /\ edges' = IF r.err = <<>> THEN r.edges ELSE edges
    /\ output' = r.output
    /\ err' = r.err
    /\ pc' = IF r.err = <<>> THEN ok ELSE failed
    /\ UNCHANGED <<config, param, faces, leds, pcb_points>>
    /\ UNCHANGED matrixVars

\* model_def = ModelDefinition(args.model), line 888
MainLoad ==
    /\ pc = "start"
    /\ Constructed(ModelDefinition(config), "loaded", "exit1")
    /\ UNCHANGED ncalls

\* model.load_pcb_data(args.input), line 892
MainLoadPcb ==
    /\ pc = "loaded"
    /\ \E file \in PcbFiles : PcbLoaded(file, "pcb", "exit1")
    /\ UNCHANGED ncalls

\* model.generate_model(), line 893
MainGenerate ==
    /\ pc = "pcb"
    /\ Generated(generate_model(faces, leds, pcb_points, _load_face_types(config)),
                 "generated", "exit1")
    /\ UNCHANGED ncalls

\* output_file = open(output_path, 'w'), line 896, which leaves an empty
\* file, and model.export_cpp_header(output_file), line 901
MainExportCpp ==
    /\ pc = "generated"
    /\ Exported(export_cpp_header(config.model, faces, _load_face_types(config), "empty"),
                "exit0", "exit1")
    /\ UNCHANGED ncalls

\* output_file = open(output_path, 'w'), line 896, and
\* model.export_json(output_file), line 903
MainExportJson ==
    /\ pc = "generated"
    /\ Exported(export_json(faces, _load_face_types(config), "empty"), "exit0", "exit1")
    /\ UNCHANGED ncalls

Next ==
    \/ MainLoad
    \/ MainLoadPcb
    \/ MainGenerate
    \/ MainExportCpp
    \/ MainExportJson

Spec == Init /\ [][Next]_vars

(***************************************************************************)
(* A caller that builds a DodecaModel and calls its methods in any order,   *)
(* catching the exceptions (as the unit tests do)                           *)
(***************************************************************************)

InitApi == InitEngine /\ InitModel(ApiConfigs)

\* model = DodecaModel(ModelDefinition(path))
ApiConstruct ==
    /\ pc = "start"
    /\ Constructed(ModelDefinition(config), "ready", "exit1")
    /\ UNCHANGED ncalls

\* The caller holds a model and has calls left
CanCall ==
    /\ pc \notin {"start", "exit1"}
    /\ ncalls < MaxCalls

\* model.load_pcb_data(filename)
ApiLoadPcb ==
    /\ CanCall
    /\ \E file \in PcbFiles : PcbLoaded(file, "load_pcb_data", "load_pcb_data")
    /\ ncalls' = ncalls + 1

\* model.generate_model()
ApiGenerate ==
    /\ CanCall
    /\ Generated(generate_model(faces, leds, pcb_points, _load_face_types(config)),
                 "generate_model", "generate_model")
    /\ ncalls' = ncalls + 1

\* model.export_cpp_header(file)
ApiExportCpp ==
    /\ CanCall
    /\ Exported(export_cpp_header(config.model, faces, _load_face_types(config), output),
                "export_cpp_header", "export_cpp_header")
    /\ ncalls' = ncalls + 1

\* model.export_json(file)
ApiExportJson ==
    /\ CanCall
    /\ Exported(export_json(faces, _load_face_types(config), output),
                "export_json", "export_json")
    /\ ncalls' = ncalls + 1

NextApi ==
    \/ ApiConstruct
    \/ ApiLoadPcb
    \/ ApiGenerate
    \/ ApiExportCpp
    \/ ApiExportJson

SpecApi == InitApi /\ [][NextApi]_vars

(***************************************************************************)
(* A caller that generates a model from a densely populated file           *)
(***************************************************************************)

InitDense == InitEngine /\ InitModel(DenseConfigs)

\* model = DodecaModel(ModelDefinition(path))
DenseConstruct ==
    /\ pc = "start"
    /\ Constructed(ModelDefinition(config), "ready", "exit1")
    /\ UNCHANGED ncalls

\* model.load_pcb_data(filename)
DenseLoadPcb ==
    /\ pc = "ready"
    /\ \E file \in DenseFiles : PcbLoaded(file, "pcb", "exit1")
    /\ UNCHANGED ncalls

\* model.generate_model()
DenseGenerate ==
    /\ pc = "pcb"
    /\ Generated(generate_model(faces, leds, pcb_points, _load_face_types(config)),
                 "generated", "failed")
    /\ UNCHANGED ncalls

NextDense ==
    \/ DenseConstruct
    \/ DenseLoadPcb
    \/ DenseGenerate

SpecDense == InitDense /\ [][NextDense]_vars

(***************************************************************************)
(* A caller that asks for the edges of a polyhedral model                   *)
(***************************************************************************)

InitSolid == InitEngine /\ InitModel(SolidConfigs)

\* model = DodecaModel(ModelDefinition(path))
SolidConstruct ==
    /\ pc = "start"
    /\ Constructed(ModelDefinition(config), "ready", "exit1")
    /\ UNCHANGED ncalls

\* model.export_json(file)
SolidExport ==
    /\ pc = "ready"
    /\ Exported(export_json(faces, _load_face_types(config), output), "exported", "failed")
    /\ UNCHANGED ncalls

NextSolid ==
    \/ SolidConstruct
    \/ SolidExport

SpecSolid == InitSolid /\ [][NextSolid]_vars

(***************************************************************************)
(* A caller of the functions of dodeca_core (as its unit tests are)         *)
(***************************************************************************)

\* The caller holds the file it is going to load (pcb)
InitCore ==
    /\ InitEngine
    /\ InitModel({[faces |-> <<>>, face_types |-> FaceTypeCatalog, model |-> Metadata,
                   pcb |-> file] : file \in CoreFiles})

\* points = load_pcb_points(filename)
CoreLoad ==
    /\ pc = "start"
    /\ PcbLoaded(config.pcb, "loaded", "raised")
    /\ UNCHANGED ncalls

\* transform_led_point(x, y, num, side, rotation) of one loaded point, for
\* each side
CoreTransform ==
    /\ pc = "loaded"
    /\ \E n \in 1..Len(pcb_points[1]), rotation \in Rotations :
        leds' = [side \in 1..NumSides |->
                    [side |-> side - 1,
                     rotation |-> rotation,
                     point |-> pcb_points[1][n],
                     position |-> transform_led_point(pcb_points[1][n].x, pcb_points[1][n].y,
                                                      pcb_points[1][n].num, side - 1, rotation)]]
    /\ pc' = "transformed"
    /\ UNCHANGED <<config, param, faces, pcb_points, edges, output, err, ncalls>>
    /\ UNCHANGED matrixVars

NextCore ==
    \/ CoreLoad
    \/ CoreTransform

SpecCore == InitCore /\ [][NextCore]_vars

(***************************************************************************)
(* A caller of create_parameter                                             *)
(***************************************************************************)

\* The caller holds the definition of one parameter (param_data)
InitParam ==
    /\ InitEngine
    /\ InitModel({[faces |-> <<>>, face_types |-> FaceTypeCatalog, model |-> Metadata,
                   param_data |-> d] : d \in ParamData})

\* The state after create_parameter returned or raised r
Created(r) ==
    /\ param' = IF r.err = <<>>
                THEN <<[param_type |-> config.param_data.type, flags |-> r.flags]>> ELSE <<>>
    /\ err' = r.err
    /\ pc' = IF r.err = <<>> THEN "created" ELSE "raised"
    /\ UNCHANGED <<config, faces, leds, pcb_points, edges, output, ncalls>>
    /\ UNCHANGED matrixVars

\* param = create_parameter(name, param_data)
CreateParameter ==
    /\ pc = "start"
    /\ Created(create_parameter(config.param_data))

SpecParam == InitParam /\ [][CreateParameter]_vars

(***************************************************************************)
(* A caller that drives one Matrix3D engine                                 *)
(***************************************************************************)

InitMatrix == InitEngine /\ InitModel({[faces |-> <<>>, face_types |-> FaceTypeCatalog, model |-> Metadata]})

\* The state after a call that replaced self.m by mat and left the stack
Transformed(mat, op, arg) ==
    /\ m' = mat
    /\ raised' = FALSE
    /\ lastOp' = op
    /\ nops' = nops + 1
    /\ applied' = Append(applied, [op |-> op, arg |-> arg])
    /\ UNCHANGED <<stack, marks, lastMark>>
    /\ UNCHANGED modelVars

\* Matrix3D.rotate_x
RotateX ==
    /\ nops < MaxOps
    /\ \E angle \in MatrixAngles : Transformed(rotate_x(m, angle), "rotate_x", <<angle>>)

\* Matrix3D.rotate_y
RotateY ==
    /\ nops < MaxOps
    /\ \E angle \in MatrixAngles : Transformed(rotate_y(m, angle), "rotate_y", <<angle>>)

\* Matrix3D.rotate_z
RotateZ ==
    /\ nops < MaxOps
    /\ \E angle \in MatrixAngles : Transformed(rotate_z(m, angle), "rotate_z", <<angle>>)

\* Matrix3D.translate
Translate ==
    /\ nops < MaxOps
    /\ \E d \in MatrixShifts : Transformed(translate(m, d[1], d[2], d[3]), "translate", d)

\* Matrix3D.push_matrix; the history notes the matrix and the depth at the call
PushMatrix ==
    /\ nops < MaxOps
    /\ stack' = push_matrix(m, stack)
    /\ marks' = Append(marks, [m |-> m, depth |-> Len(stack), at |-> nops, applied |-> applied])
    /\ raised' = FALSE
    /\ lastOp' = "push_matrix"
    /\ nops' = nops + 1
    /\ UNCHANGED <<m, lastMark, applied>>
    /\ UNCHANGED modelVars

\* Matrix3D.pop_matrix: raises on an empty stack and then changes nothing
PopMatrix ==
    /\ nops < MaxOps
    /\ IF pop_matrix_raises(stack)
       THEN /\ raised' = TRUE
            /\ UNCHANGED <<m, stack, marks, lastMark, applied>>
       ELSE /\ m' = pop_matrix_m(m, stack)
            /\ applied' = marks[Len(marks)].applied
            /\ stack' = pop_matrix_stack(m, stack)
            /\ lastMark' = <<marks[Len(marks)]>>
            /\ marks' = SubSeq(marks, 1, Len(marks) - 1)
            /\ raised' = FALSE
    /\ lastOp' = "pop_matrix"
    /\ nops' = nops + 1
    /\ UNCHANGED modelVars

NextMatrix ==
    \/ RotateX
    \/ RotateY
    \/ RotateZ
    \/ Translate
    \/ PushMatrix
    \/ PopMatrix

SpecMatrix == InitMatrix /\ [][NextMatrix]_vars

(***************************************************************************)
(* util/models/dodecahedron.py and util/generate_points.py: the generators *)
(* that work on a Matrix3D engine                                          *)
(***************************************************************************)

\* DodecaConfig.num_faces
num_faces == 12

\* Matrix3D.pop_matrix on the engine (mat, stk): the engine it leaves
pop_matrix(mat, stk) ==
    IF pop_matrix_raises(stk)
    THEN [m |-> mat, stack |-> stk, raised |-> TRUE]
    ELSE [m |-> pop_matrix_m(mat, stk), stack |-> pop_matrix_stack(mat, stk), raised |-> FALSE]

\* Dodecahedron.generate_base_face: the pentagon on the unit sphere, in
\* 1/Scale units; 2/(sqrt(3)*phi) = 0.714 and phi/sqrt(3) = 0.934
generate_base_face ==
    [i \in 1..5 |-> << (Cos((i - 1) * ro) * 714) \div Scale,
                       (Sin((i - 1) * ro) * 714) \div Scale,
                       934 >>]

\* Dodecahedron.transform_face: the positioning branch, then the rotation
\* of the hemisphere; nothing is translated
transform_face(mat, face_index) ==
    hemisphere_rotation(side_positioning(mat, face_index), face_index)

\* Dodecahedron.generate_faces from side on, on the engine e that also
\* carries the faces made so far: push_matrix, transform_face, apply to
\* every vertex, pop_matrix; an exception ends the loop
RECURSIVE generate_faces(_, _)
generate_faces(e, side) ==
    IF side = num_faces \/ e.raised
    THEN e
    ELSE generate_faces(
            [m |-> pop_matrix(transform_face(e.m, side), push_matrix(e.m, e.stack)).m,
             stack |-> pop_matrix(transform_face(e.m, side), push_matrix(e.m, e.stack)).stack,
             raised |-> pop_matrix(transform_face(e.m, side), push_matrix(e.m, e.stack)).raised,
             faces |-> Append(e.faces,
                          List([v \in 1..5 |-> apply(transform_face(e.m, side), generate_base_face[v])]))],
            side + 1)

\* A faulty generate_face_points that leaves out the last pop_matrix
RECURSIVE generate_face_points_unpopped(_, _, _, _, _)
generate_face_points_unpopped(rad, e, side, start_index, i) ==
    IF e.raised
    THEN e
    ELSE IF i = 5
    THEN e
    ELSE generate_face_points_unpopped(rad,
            [m |-> pop_matrix(e.m, push_matrix(e.m, e.stack)).m,
             stack |-> pop_matrix(e.m, push_matrix(e.m, e.stack)).stack,
             raised |-> pop_matrix(e.m, push_matrix(e.m, e.stack)).raised,
             points |-> Append(e.points,
                          [index |-> start_index + i,
                           point |-> apply(e.m, <<Round(rad * Cos(i * ro)), Round(rad * Sin(i * ro)), 0>>),
                           side |-> side,
                           label_num |-> i])],
            side, start_index, i + 1)

\* generate_face_points from LED i on, on the engine e the first push_matrix
\* and rotate_z left, which also carries the points made so far: per LED
\* push_matrix, apply, pop_matrix, and after the last LED pop_matrix
RECURSIVE generate_face_points(_, _, _, _, _)
generate_face_points(rad, e, side, start_index, i) ==
    IF e.raised
    THEN e
    ELSE IF i = 5
    THEN [m |-> pop_matrix(e.m, e.stack).m,
          stack |-> pop_matrix(e.m, e.stack).stack,
          raised |-> pop_matrix(e.m, e.stack).raised,
          points |-> e.points]
    ELSE generate_face_points(rad,
            [m |-> pop_matrix(e.m, push_matrix(e.m, e.stack)).m,
             stack |-> pop_matrix(e.m, push_matrix(e.m, e.stack)).stack,
             raised |-> pop_matrix(e.m, push_matrix(e.m, e.stack)).raised,
             points |-> Append(e.points,
                          [index |-> start_index + i,
                           point |-> apply(e.m, <<Round(rad * Cos(i * ro)), Round(rad * Sin(i * ro)), 0>>),
                           side |-> side,
                           label_num |-> i])],
            side, start_index, i + 1)

(***************************************************************************)
(* A caller of the generators: it prepares the engine with rotate_z,       *)
(* translate, push_matrix and pop_matrix and calls the generators on it    *)
(***************************************************************************)

\* The number of calls such a caller makes
MaxGen == 4

\* The state after a generator returned the engine e
GeneratorReturned(e, op) ==
    /\ m' = e.m
    /\ stack' = e.stack
    /\ raised' = e.raised
    /\ lastOp' = op
    /\ nops' = nops + 1
    /\ UNCHANGED <<marks, lastMark, applied>>
    /\ UNCHANGED <<config, param, pc, pcb_points, edges, output, err, ncalls>>

\* Dodecahedron.generate_faces on the engine self.matrix
GenerateFaces ==
    /\ nops < MaxGen
    /\ GeneratorReturned(generate_faces([m |-> m, stack |-> stack, raised |-> FALSE, faces |-> <<>>], 0),
                 "generate_faces")
    /\ faces' = generate_faces([m |-> m, stack |-> stack, raised |-> FALSE, faces |-> <<>>], 0).faces
    /\ UNCHANGED leds

\* generate_face_points(100, matrix, side, side * 5, rotation): the first
\* push_matrix and rotate_z(rotation * ro), then the LEDs
GenerateFacePoints ==
    /\ nops < MaxGen
    /\ \E side \in {0, 3}, rotation \in {0, 1} :
        /\ GeneratorReturned(generate_face_points(100,
                        [m |-> rotate_z(m, rotation * ro), stack |-> push_matrix(m, stack),
                         raised |-> FALSE, points |-> <<>>],
                        side, side * 5, 0),
                     "generate_face_points")
        /\ leds' = generate_face_points(100,
                        [m |-> rotate_z(m, rotation * ro), stack |-> push_matrix(m, stack),
                         raised |-> FALSE, points |-> <<>>],
                        side, side * 5, 0).points
    /\ UNCHANGED faces

NextFaces ==
    \/ nops < MaxGen /\ RotateZ
    \/ nops < MaxGen /\ Translate
    \/ nops < MaxGen /\ PushMatrix
    \/ nops < MaxGen /\ PopMatrix
    \/ GenerateFaces
    \/ GenerateFacePoints

SpecFaces == InitMatrix /\ [][NextFaces]_vars

(***************************************************************************)
(* Properties of the load step                                              *)
(***************************************************************************)

\* The ValueErrors of _validate_remapping
ValidationErrors == {"invalid_face_id", "duplicate_position", "missing_positions"}

\* ModelDefinition(config) raised
LoadFailed == pc = "exit1" /\ err # <<>> /\ err[1].kind \in ValidationErrors

\* ModelDefinition(config) returned an object
LoadedOk == pc # "start" /\ ~LoadFailed

\* The number of face instances of the configuration
FaceCount == Len(config.faces)

\* The logical ID of the i-th face instance of the configuration
LogicalId(i) == config.faces[i].id

\* The geometric ID of the i-th face instance of the configuration, as the
\* specification defines it: remap_to when present, else the logical ID
GeometricId(i) ==
    IF Len(config.faces[i].remap_to) = 1 THEN config.faces[i].remap_to[1] ELSE LogicalId(i)

LogicalIds == {LogicalId(i) : i \in 1..FaceCount}

GeometricIds == {GeometricId(i) : i \in 1..FaceCount}

\* Two face instances produce the same geometric ID
SomeDuplicate == \E i, j \in 1..FaceCount : i < j /\ GeometricId(i) = GeometricId(j)

\* The first face instance, in list order, whose geometric ID an earlier one has
FirstRepeated == CHOOSE j \in 1..FaceCount :
    /\ \E i \in 1..(j - 1) : GeometricId(i) = GeometricId(j)
    /\ \A k \in 1..(j - 1) : \A i \in 1..(k - 1) : GeometricId(i) # GeometricId(k)

\* The face instance before FirstRepeated with the same geometric ID
FirstHolder == CHOOSE i \in 1..(FirstRepeated - 1) : GeometricId(i) = GeometricId(FirstRepeated)

\* C1: in every configuration that loads without raising, the geometric IDs
\* of the face instances are pairwise distinct and the set of geometric IDs
\* equals the set of logical IDs
C1_Bijection ==
    LoadedOk =>
        /\ Len(faces) = FaceCount
        /\ \A i, j \in 1..FaceCount : i # j => GeometricId(i) # GeometricId(j)
        /\ GeometricIds = LogicalIds

\* A loaded configuration in which a face other than face 0 is remapped to
\* position 0 and another face takes its place
C1_Witness ==
    /\ LoadedOk
    /\ FaceCount >= 2
    /\ \E i, j \in 1..FaceCount :
        /\ config.faces[i].remap_to = <<0>> /\ LogicalId(i) # 0
        /\ config.faces[j].remap_to = <<LogicalId(i)>> /\ LogicalId(j) = 0

\* C2 as claimed: in every loaded model all geometric IDs lie in 0..faceCount-1
C2_InRange ==
    LoadedOk => \A i \in 1..FaceCount : GeometricId(i) \in 0..(FaceCount - 1)

\* C2: a configuration in which some geometric ID is not the logical ID of
\* a declared face fails to load with a ValueError, so in every loaded model
\* every geometric ID is a declared logical ID
C2_ValidFaceIds ==
    /\ (pc # "start" /\ ~(GeometricIds \subseteq LogicalIds)) =>
            (LoadFailed /\ faces = <<>>)
    /\ (pc # "start" /\ FaceCount > 0 /\ GeometricId(1) \notin LogicalIds) =>
            (LoadFailed /\ err[1].kind = "invalid_face_id" /\ err[1].face = LogicalId(1))
    /\ LoadedOk => GeometricIds \subseteq LogicalIds

\* A configuration refused because a face is remapped to an ID that no face has
C2_Witness ==
    /\ LoadFailed
    /\ err[1].kind = "invalid_face_id"
    /\ \E i \in 1..FaceCount :
        /\ config.faces[i].remap_to # <<>>
        /\ GeometricId(i) \notin LogicalIds
        /\ GeometricId(i) \in 0..(FaceCount - 1)

\* C3: when two face instances produce the same geometric ID and every
\* geometric ID is a valid face ID, the load fails with the duplicate-position
\* error that names the position, the earlier-listed and the later-listed
\* face, and no object is produced
C3_DuplicateError ==
    (pc # "start" /\ GeometricIds \subseteq LogicalIds /\ SomeDuplicate) =>
        /\ pc = "exit1"
        /\ faces = <<>>
        /\ err = <<[kind |-> "duplicate_position",
                    position |-> GeometricId(FirstRepeated),
                    first |-> LogicalId(FirstHolder),
                    second |-> LogicalId(FirstRepeated)]>>

\* A configuration refused because a remapped face collides with a face
\* that keeps its own position
C3_Witness ==
    /\ LoadFailed
    /\ err[1].kind = "duplicate_position"
    /\ err[1].first # err[1].second
    /\ \E i \in 1..FaceCount : config.faces[i].remap_to # <<>> /\ GeometricId(i) # LogicalId(i)

\* C4 as claimed: a configuration that leaves a geometric position uncovered
\* fails to load with the missing-position error naming the uncovered IDs
C4_MissingError ==
    (pc # "start" /\ LogicalIds \ GeometricIds # {}) =>
        /\ pc = "exit1"
        /\ err = <<[kind |-> "missing_positions", missing |-> LogicalIds \ GeometricIds]>>

\* C4: a configuration that leaves a geometric position uncovered fails to
\* load with the invalid-face-ID or the duplicate-position error; the
\* missing-position error is never raised
C4_MissingRefused ==
    /\ (pc # "start" /\ LogicalIds \ GeometricIds # {}) =>
            /\ LoadFailed
            /\ faces = <<>>
            /\ err[1].kind \in {"invalid_face_id", "duplicate_position"}
    /\ err # <<>> => err[1].kind # "missing_positions"

\* A configuration that leaves a position uncovered, refused as a duplicate
C4_Witness ==
    /\ LoadFailed
    /\ LogicalIds \ GeometricIds # {}
    /\ GeometricIds \subseteq LogicalIds
    /\ err[1].kind = "duplicate_position"

\* The mapping of the configuration is not a bijection of the logical IDs
MappingInvalid == FaceCount > 0 /\ (SomeDuplicate \/ GeometricIds # LogicalIds)

\* C5: with an invalid mapping the load step fails, and no LED record is
\* created, no PCB data loaded, no edge computed and nothing exported
C5_ValidatedFirst ==
    MappingInvalid =>
        /\ pc \in {"start", "exit1"}
        /\ faces = <<>>
        /\ leds = <<>>
        /\ pcb_points = <<>>
        /\ edges = <<>>
        /\ output = "none"

\* A run that ended at the load step because two faces share a position
C5_Witness ==
    /\ MappingInvalid
    /\ pc = "exit1"
    /\ err # <<>>
    /\ FaceCount >= 2

(***************************************************************************)
(* Properties of generate_model in a run of main()                          *)
(***************************************************************************)

\* The loaded PCB points and their number
Points == pcb_points[1]

PointCount == Len(Points)

\* The LED at position (f - 1) * PointCount + k - 1 of a global LED list
LedOf(ledlist, f, k) == ledlist[(f - 1) * PointCount + k]

\* C6: generate_model creates one LED for every face instance f and every
\* PCB point p; its position is the placement transform of (p.x, p.y, 0)
\* with g = the geometric ID of f and r = the rotation of f, and its face_id
\* is the logical ID of f
C6_Placement ==
    pc = "generated" =>
        /\ Len(leds) = FaceCount * PointCount
        /\ \A f \in 1..FaceCount : \A k \in 1..PointCount :
            /\ LedOf(leds, f, k).position =
                    transform_led_point(Points[k].x, Points[k].y, Points[k].num,
                                        GeometricId(f), config.faces[f].rotation)
            /\ LedOf(leds, f, k).face_id = LogicalId(f)

\* A generated model with a face whose geometric ID is not its logical ID
C6_Witness ==
    /\ pc = "generated"
    /\ PointCount >= 2
    /\ \E f \in 1..FaceCount :
        /\ GeometricId(f) # LogicalId(f)
        /\ LedOf(leds, f, 2).face_id = LogicalId(f)
        /\ config.faces[f].rotation # 0

\* C7 as claimed: with logical IDs 0..F-1 the list has F*P records, the
\* record at position i has index i and face_id i div P
C7_WiringOrder ==
    (pc = "generated" /\ LogicalIds = 0..(FaceCount - 1)) =>
        /\ Len(leds) = FaceCount * PointCount
        /\ \A i \in 0..(Len(leds) - 1) :
            /\ leds[i + 1].index = i
            /\ leds[i + 1].face_id = i \div PointCount

\* The faces are listed in the order of their logical IDs 0, 1, ...
ListedInOrder == \A f \in 1..FaceCount : LogicalId(f) = f - 1

\* C7: the list has F*P records, the record at position i has index i and
\* the logical ID of the face listed at position i div P, which is i div P
\* when the faces are listed in the order of their logical IDs
C7_ListOrder ==
    pc = "generated" =>
        /\ Len(leds) = FaceCount * PointCount
        /\ \A i \in 0..(Len(leds) - 1) :
            /\ leds[i + 1].index = i
            /\ leds[i + 1].face_id = LogicalId((i \div PointCount) + 1)
            /\ ListedInOrder => leds[i + 1].face_id = i \div PointCount

\* The example: faces 0 and 1 listed in order and remapped to each other's
\* position, two PCB points
C7_Witness ==
    /\ pc = "generated"
    /\ FaceCount = 2 /\ PointCount = 2
    /\ ListedInOrder
    /\ config.faces[1].remap_to = <<1>> /\ config.faces[2].remap_to = <<0>>
    /\ leds[3].face_id = 1

\* The face list with the remap_to values of the faces listed at a and b swapped
SwapRemap(fl, a, b) ==
    [fl EXCEPT ![a].remap_to = fl[b].remap_to, ![b].remap_to = fl[a].remap_to]

\* The configuration that differs only in that swap
Swapped(a, b) == [config EXCEPT !.faces = SwapRemap(config.faces, a, b)]

\* The faces a and b have equal rotation, the swap changes the
\* configuration, and the changed configuration loads
CanSwap(a, b) ==
    /\ a # b
    /\ config.faces[a].rotation = config.faces[b].rotation
    /\ config.faces[a].remap_to # config.faces[b].remap_to
    /\ ModelDefinition(Swapped(a, b)).err = <<>>

\* The global LED list of the changed configuration with the same PCB points
SwappedLeds(a, b) ==
    generate_model(ModelDefinition(Swapped(a, b)).faces, <<>>, pcb_points,
                   _load_face_types(config)).leds

\* The lists agree in index, label and face_id at every position, and the
\* LEDs of a in the first are where the LEDs of b are in the second
SwapsPlacement(first, second, a, b) ==
    /\ Len(first) = Len(second)
    /\ \A i \in 1..Len(first) :
        /\ first[i].index = second[i].index
        /\ first[i].label = second[i].label
        /\ first[i].face_id = second[i].face_id
    /\ \A k \in 1..PointCount :
        /\ LedOf(first, a, k).position = LedOf(second, b, k).position
        /\ LedOf(first, b, k).position = LedOf(second, a, k).position

\* C8: for the generated model and the model of the configuration in which
\* the remap_to values of two faces of equal rotation are swapped, the LED
\* lists agree in index, label and face_id, and the positions of the LEDs of
\* the two faces are exchanged
C8_SwapRemap ==
    pc = "generated" =>
        \A a, b \in 1..FaceCount :
            CanSwap(a, b) => SwapsPlacement(leds, SwappedLeds(a, b), a, b)

\* A generated model with two faces whose remap_to values can be swapped
\* and whose LEDs are at different places
C8_Witness ==
    /\ pc = "generated"
    /\ PointCount >= 2
    /\ \E a, b \in 1..FaceCount :
        /\ CanSwap(a, b)
        /\ LedOf(leds, a, 1).position # LedOf(leds, b, 1).position

(***************************************************************************)
(* Properties of a DodecaModel called in any order                          *)
(***************************************************************************)

\* C9: after a generate_model call that returned, every face holds one LED
\* record per PCB point, the global list holds F*P records, and every LED
\* has its neighbors list, however many calls came before
C9_PopulatedOnce ==
    (pc = "generate_model" /\ err = <<>>) =>
        /\ Len(leds) = Len(faces) * PointCount
        /\ \A f \in 1..Len(faces) : Len(faces[f].leds) = PointCount
        /\ \A i \in 1..Len(leds) : leds[i].neighbors # <<>>

(***************************************************************************)
(* Properties of the Matrix3D engine                                        *)
(***************************************************************************)

\* The last call was a pop_matrix that returned
Popped == lastOp = "pop_matrix" /\ ~raised

\* C10: a pop_matrix that returns leaves the matrix, the stack depth and
\* apply(p) as they were at the matching push_matrix, whatever was called in
\* between; and every saved matrix stays the matrix at its push_matrix
C10_PushPopRestores ==
    /\ Len(stack) = Len(marks)
    /\ \A i \in 1..Len(stack) : stack[i] = marks[i].m /\ marks[i].depth = i - 1
    /\ Popped =>
        /\ m = lastMark[1].m
        /\ Len(stack) = lastMark[1].depth
        /\ \A p \in MatrixPoints : apply(m, p) = apply(lastMark[1].m, p)

\* A pop_matrix that closes a push_matrix made on a transformed engine with
\* another matrix still saved below it and calls in between
C10_Witness ==
    /\ Popped
    /\ Len(stack) = 1
    /\ nops - lastMark[1].at >= 3
    /\ m # Identity
    /\ m # stack[1]

\* The step is a pop_matrix call
PopCalled == nops' = nops + 1 /\ lastOp' = "pop_matrix"

\* What a pop_matrix call does, by the stack it finds
PopOutcome ==
    IF stack = <<>>
    THEN raised' /\ m' = m /\ stack' = <<>>
    ELSE ~raised' /\ Len(stack') = Len(stack) - 1

\* C11: pop_matrix on an empty stack raises and leaves the matrix and the
\* empty stack unchanged; pop_matrix on a non-empty stack does not raise
C11_PopOnEmpty == [][PopCalled => PopOutcome]_vars

\* A pop_matrix that raised on a transformed engine after an earlier
\* push_matrix and pop_matrix pair: one pop more than pushes
C11_Witness ==
    /\ lastOp = "pop_matrix"
    /\ raised
    /\ stack = <<>>
    /\ lastMark # <<>>
    /\ m # Identity

\* What one transforming call does to a point, taken alone
PointOp(o, p) ==
    CASE o.op = "rotate_x" ->
            <<p[1],
              Round(Cos(o.arg[1]) * p[2] - Sin(o.arg[1]) * p[3]),
              Round(Sin(o.arg[1]) * p[2] + Cos(o.arg[1]) * p[3])>>
      [] o.op = "rotate_y" ->
            <<Round(Cos(o.arg[1]) * p[1] + Sin(o.arg[1]) * p[3]),
              p[2],
              Round(Cos(o.arg[1]) * p[3] - Sin(o.arg[1]) * p[1])>>
      [] o.op = "rotate_z" ->
            <<Round(Cos(o.arg[1]) * p[1] - Sin(o.arg[1]) * p[2]),
              Round(Sin(o.arg[1]) * p[1] + Cos(o.arg[1]) * p[2]),
              p[3]>>
      [] o.op = "translate" -> <<p[1] + o.arg[1], p[2] + o.arg[2], p[3] + o.arg[3]>>

RECURSIVE LastFirst(_, _)
\* o1(o2(...on(p)...)) for the calls ops = <<o1, ..., on>>
LastFirst(ops, p) ==
    IF ops = <<>> THEN p ELSE PointOp(Head(ops), LastFirst(Tail(ops), p))

\* C12: after the calls o1, ..., on on an identity engine, apply(p) is
\* o1(o2(...on(p)...)): the call issued last acts on the point first
C12_PostMultiply ==
    \A p \in MatrixPoints : apply(m, p) = LastFirst(applied, p)

\* The example: translate(1, 0, 0), then a quarter turn rotate_z, maps
\* (1, 0, 0) to (1, 1, 0)
C12_Witness ==
    /\ applied = <<[op |-> "translate", arg |-> <<1, 0, 0>>],
                   [op |-> "rotate_z", arg |-> <<PI \div 2>>]>>
    /\ apply(m, <<1, 0, 0>>) = <<1, 1, 0>>

(***************************************************************************)
(* Properties of the neighbor lists                                         *)
(***************************************************************************)

\* The neighbors list of the LED at list position i
NeighborsOf(i) == leds[i].neighbors[1]

\* C13: after _calculate_neighbors every LED has a neighbors list of at
\* most MAX_LED_NEIGHBORS entries, sorted by non-decreasing distance, without
\* an entry for the LED itself, and every entry names the index of an LED
C13_NeighborLists ==
    pc = "generated" =>
        \A i \in 1..Len(leds) :
            /\ leds[i].neighbors # <<>>
            /\ Len(NeighborsOf(i)) <= 7
            /\ \A n \in 1..(Len(NeighborsOf(i)) - 1) :
                NeighborsOf(i)[n].distance <= NeighborsOf(i)[n + 1].distance
            /\ \A n \in 1..Len(NeighborsOf(i)) :
                /\ NeighborsOf(i)[n].led_number # leds[i].index
                /\ \E j \in 1..Len(leds) : leds[j].index = NeighborsOf(i)[n].led_number

\* A generated model in which an LED has more LEDs within the radius than
\* its list may hold, and the list is full
C13_Witness ==
    /\ pc = "generated"
    /\ \E i \in 1..Len(leds) :
        /\ Len(NeighborsOf(i)) = 7
        /\ Cardinality({j \in 1..Len(leds) :
                j # i /\ squared_distance(leds[i].position, leds[j].position) <= 10000}) > 7
        /\ NeighborsOf(i)[1].distance < NeighborsOf(i)[7].distance

\* The squared distance of the LEDs with the global indices a and b
Dist2(a, b) == squared_distance(leds[a + 1].position, leds[b + 1].position)

\* The other LEDs within the maximum radius of the LED with index a
InRadius(a) == {b \in 0..(Len(leds) - 1) : b # a /\ Dist2(a, b) <= 100 * 100}

\* From LED a, LED b comes before LED c: it is closer, or as far and
\* generated earlier
Before(a, b, c) == Dist2(a, b) < Dist2(a, c) \/ (Dist2(a, b) = Dist2(a, c) /\ b < c)

\* The indices the neighbors list of the LED with index a names
Listed(a) == {NeighborsOf(a + 1)[n].led_number : n \in 1..Len(NeighborsOf(a + 1))}

\* The smaller of two numbers
Min(x, y) == IF x < y THEN x ELSE y

\* C14: the neighbors list of every LED is the first K elements of the list
\* of the other LEDs within the maximum radius, in ascending distance with
\* ties in ascending index order
C14_NearestFirst ==
    pc = "generated" =>
        \A a \in 0..(Len(leds) - 1) :
            /\ leds[a + 1].index = a
            /\ Listed(a) \subseteq InRadius(a)
            /\ Len(NeighborsOf(a + 1)) = Min(7, Cardinality(InRadius(a)))
            /\ \A n \in 1..Len(NeighborsOf(a + 1)) :
                NeighborsOf(a + 1)[n].distance = Dist2(a, NeighborsOf(a + 1)[n].led_number)
            /\ \A n \in 1..(Len(NeighborsOf(a + 1)) - 1) :
                Before(a, NeighborsOf(a + 1)[n].led_number, NeighborsOf(a + 1)[n + 1].led_number)
            /\ \A b \in Listed(a) : \A c \in InRadius(a) \ Listed(a) : Before(a, b, c)

\* A generated model in which an LED has two neighbors at the same
\* distance, an LED of its face outside the radius, and LEDs within the
\* radius that its full list leaves out
C14_Witness ==
    /\ pc = "generated"
    /\ \E a \in 0..(Len(leds) - 1) :
        /\ Len(NeighborsOf(a + 1)) = 7
        /\ InRadius(a) \ Listed(a) # {}
        /\ \E n \in 1..6 : NeighborsOf(a + 1)[n].distance = NeighborsOf(a + 1)[n + 1].distance
        /\ \E b \in 0..(Len(leds) - 1) :
            /\ b \notin InRadius(a) /\ b # a
            /\ leds[b + 1].face_id = leds[a + 1].face_id

(***************************************************************************)
(* Properties of the edge table                                             *)
(***************************************************************************)

\* The edge records of the last export
EdgeList == edges[1]

\* Two points closer than the tolerance of the edge matching
Near(p, q) == squared_distance(p, q) < 10 * 10

\* The edge records e and o have the same end points, in either direction
SameSegment(e, o) ==
    \/ Near(e.start, o.start) /\ Near(e.end, o.end)
    \/ Near(e.start, o.end) /\ Near(e.end, o.start)

\* The face at list position k is another face than that of edge e and has
\* a boundary segment with the end points of e
Adjoins(e, k) ==
    /\ faces[k].id # e.face_id
    /\ \E n \in 1..Len(EdgeList) :
        EdgeList[n].face_id = faces[k].id /\ SameSegment(e, EdgeList[n])

\* The id of the first face in list order that adjoins e, -1 without one
FirstAdjoining(e) ==
    IF \A k \in 1..Len(faces) : ~Adjoins(e, k) THEN 0 - 1
    ELSE faces[least({k \in 1..Len(faces) : Adjoins(e, k)})].id

RECURSIVE SidesBefore(_)
SidesBefore(f) ==
    IF f = 1 THEN 0
    ELSE SidesBefore(f - 1) + config.face_types[faces[f - 1].type].num_sides

\* Edge i (from 0) of the face at list position f
EdgeOf(f, i) == EdgeList[SidesBefore(f) + i + 1]

\* The polygon of the face at list position f
PolygonOf(f) == face_vertices(faces, faces[f], _load_face_types(config))

\* C16: the edge table holds, for each face in list order, num_sides
\* records with the logical id of the face and the edge indices 0 to
\* num_sides - 1 in order; edge i runs from vertex i of the polygon to
\* vertex (i + 1) mod num_sides, so each edge ends where the next starts and
\* the last one ends at the first vertex
C16_EdgeRecords ==
    pc = "exported" =>
        /\ Len(EdgeList) = SidesBefore(Len(faces) + 1)
        /\ \A f \in 1..Len(faces) :
            \A i \in 0..(config.face_types[faces[f].type].num_sides - 1) :
                /\ EdgeOf(f, i).face_id = faces[f].id
                /\ EdgeOf(f, i).edge_index = i
                /\ EdgeOf(f, i).start = PolygonOf(f)[i + 1]
                /\ EdgeOf(f, i).end =
                    EdgeOf(f, (i + 1) % config.face_types[faces[f].type].num_sides).start

\* Edges were calculated for a model of a five-sided face followed by a
\* three-sided one
C16_Witness ==
    /\ pc = "exported"
    /\ Len(faces) = 2
    /\ Len(EdgeList) = 8
    /\ EdgeList[5].edge_index = 4
    /\ EdgeList[8].edge_index = 2
    /\ EdgeList[8].face_id = faces[2].id
    /\ EdgeList[8].end = EdgeList[6].start

\* The model is closed: NumSides pentagons on the geometric positions
\* 0 to NumSides - 1
ClosedModel ==
    /\ Len(faces) = 12
    /\ \A f \in 1..Len(faces) : faces[f].type = "pentagon"
    /\ \A g \in 0..11 : \E f \in 1..Len(faces) : get_geometric_id(faces[f]) = g

\* C17: in a closed model of 12 pentagons on the geometric positions 0 to
\* 11 each of the 60 edges has a connected face
C17_ClosedResolves ==
    (pc = "exported" /\ ClosedModel) =>
        /\ Len(EdgeList) = 60
        /\ \A n \in 1..Len(EdgeList) : EdgeList[n].connected_face_id # 0 - 1

\* The edges of a closed model listed in descending order, with the bottom
\* and the top face remapped onto each other and rotation counts, were
\* calculated
C17_Witness ==
    /\ pc = "exported"
    /\ ClosedModel
    /\ faces[1].id = 11
    /\ faces[1].remap_to = <<0>>
    /\ faces[2].rotation = 1
    /\ EdgeList[1].connected_face_id \in 1..5

\* One face of the closed model is missing
OneRemoved ==
    /\ Len(faces) = 11
    /\ \A f \in 1..Len(faces) : faces[f].type = "pentagon"

\* The logical id of the missing face
RemovedId == CHOOSE g \in 0..11 : \A f \in 1..Len(faces) : faces[f].id # g

\* The configuration of the closed model the faces were taken from
ClosedConfig ==
    [faces |-> solid_faces({},
                           faces[CHOOSE f \in 1..Len(faces) : faces[f].id % 2 = 0].rotation,
                           faces[1].id > faces[2].id,
                           \E f \in 1..Len(faces) : faces[f].remap_to # <<>>),
     face_types |-> config.face_types,
     model |-> config.model]

\* The edge table of the closed model
ClosedEdges ==
    _calculate_edges_and_relationships(_load_faces(ClosedConfig),
                                       _load_face_types(ClosedConfig)).edges

\* The connected face of the edge e in the edge table given
ConnectedIn(table, e) ==
    table[CHOOSE n \in 1..Len(table) :
            table[n].face_id = e.face_id /\ table[n].edge_index = e.edge_index].connected_face_id

\* The edges of the table now have no connected face where they had the
\* removed one in the table before, and the connected face they had otherwise
Unmatched(now, before, removed) ==
    \A n \in 1..Len(now) :
        now[n].connected_face_id =
            IF ConnectedIn(before, now[n]) = removed THEN 0 - 1 ELSE ConnectedIn(before, now[n])

\* C18: when one face is removed from a closed model, the edges without a
\* connected face are exactly the edges of the remaining faces that were
\* connected to the removed face, and every other edge keeps its connected
\* face
C18_RemovedFace ==
    (pc = "exported" /\ OneRemoved) => Unmatched(EdgeList, ClosedEdges, RemovedId)

\* The edges of a model without the face 3 were calculated: five edges
\* have no connected face
C18_Witness ==
    /\ pc = "exported"
    /\ OneRemoved
    /\ \A f \in 1..Len(faces) : faces[f].id # 3
    /\ Cardinality({n \in 1..Len(EdgeList) : EdgeList[n].connected_face_id = 0 - 1}) = 5
    /\ Len(EdgeList) = 55

(***************************************************************************)
(* Properties of the output of a failed run                                 *)
(***************************************************************************)

\* C19: a run of main that ends with an error leaves the output file
\* untouched or complete, never partially written
C19_NoPartialOutput == pc = "exit1" => output \in {"none", "cpp", "json"}

(***************************************************************************)
(* Properties of the face rotation                                          *)
(***************************************************************************)

\* The engine that places a face with the rotation count applied in steps
\* of a full turn divided by the number of sides of its type
TurnedBySides(face) ==
    rotate_z(placed_matrix(get_geometric_id(face)),
             face.rotation * (TWO_PI \div config.face_types[face.type].num_sides))

\* The face with the logical id given
FaceWithId(id) == faces[CHOOSE f \in 1..Len(faces) : faces[f].id = id]

\* The points of the longest pick-and-place file, and the one with the
\* number given
Catalogue == load_pcb_points([exists |-> TRUE, rows |-> [k \in 1..MaxRows |-> PcbRow(k)]])

PointNumbered(num) == Catalogue[CHOOSE n \in 1..Len(Catalogue) : Catalogue[n].num = num]

\* The position of an LED of the face with the rotation applied in steps of
\* the number of sides
LedTurnedBySides(led) ==
    negate_yz(apply(rotate_z(TurnedBySides(FaceWithId(led.face_id)), 0 - PI \div 10),
                    <<PointNumbered(led.label - 1).x, PointNumbered(led.label - 1).y, 0>>))

\* C20: the rotation count r of a face is applied as a rotation about Z of
\* r * (2 * pi / sides), with sides the number of sides of the face's type,
\* to the LEDs of the face and to its boundary polygon
C20_RotationBySides ==
    /\ \A n \in 1..Len(leds) : leds[n].position = LedTurnedBySides(leds[n])
    /\ edges # <<>> =>
        \A f \in 1..Len(faces) :
            \A i \in 0..(config.face_types[faces[f].type].num_sides - 1) :
                EdgeOf(f, i).start =
                    negate_yz(apply(TurnedBySides(faces[f]),
                                    base_vertices(config.face_types[faces[f].type].num_sides)[i + 1]))

(***************************************************************************)
(* Properties of the face placement                                         *)
(***************************************************************************)

\* The four placements of the face placement algorithm, applied to the
\* position g
BranchPlacement(branch, g) ==
    CASE branch = "bottom" -> rotate_z(rotate_x(Identity, PI), 0 - zv - ro * 2)
      [] branch = "lower" -> rotate_x(rotate_z(rotate_x(Identity, PI), ro * g + zv - ro), xv)
      [] branch = "upper" ->
            rotate_x(rotate_z(rotate_x(Identity, PI), ro * g - zv + ro * 3), PI - xv)
      [] branch = "top" -> rotate_z(rotate_x(rotate_x(Identity, PI), PI), zv)

\* The engine of a face placed by the branch given, with its rotation
\* count and the LED-specific turn
BranchEngine(branch, g, rotation) ==
    rotate_z(rotate_z(rotate_z(translate(BranchPlacement(branch, g), 0, 0, face_distance),
                               IF branch = "upper" THEN zv ELSE 0 - zv),
                      ro * rotation),
             0 - PI \div 10)

\* The branches the position g may take in a model of count faces
BranchesOf(g, count) ==
    IF g = 0 THEN {"bottom"}
    ELSE IF g = count - 1 THEN {"top"}
    ELSE {"lower", "upper"}

\* The point of the loaded file an LED was made from
PointOfLed(led) ==
    pcb_points[1][CHOOSE n \in 1..Len(pcb_points[1]) : pcb_points[1][n].num = led.label - 1]

\* The LED is where the branch puts the point it was made from
PlacedBy(branch, led, face) ==
    led.position =
        negate_yz(apply(BranchEngine(branch, get_geometric_id(face), face.rotation),
                        <<PointOfLed(led).x, PointOfLed(led).y, 0>>))

\* C21: the LEDs of the face on the geometric position 0 are placed by the
\* bottom placement, those of the face on the position faceCount - 1 by the
\* top placement, and those of every other face by a band placement
C21_BranchByPosition ==
    pc = "generated" =>
        \A n \in 1..Len(leds) :
            \E branch \in BranchesOf(get_geometric_id(FaceWithId(leds[n].face_id)), Len(faces)) :
                PlacedBy(branch, leds[n], FaceWithId(leds[n].face_id))

\* C22: a point transformed with rotation 0 at the bottom position and at
\* the top position gets Z coordinates of opposite sign and of the same
\* magnitude
C22_BottomTopOpposite ==
    (pc = "transformed" /\ leds[1].rotation = 0) =>
        /\ leds[1].position[3] * leds[12].position[3] < 0
        /\ leds[1].position[3] + leds[12].position[3] = 0

\* A point off the centre of the face was transformed with rotation 0
C22_Witness ==
    /\ pc = "transformed"
    /\ leds[1].rotation = 0
    /\ leds[1].side = 0 /\ leds[12].side = 11
    /\ leds[1].point.x # 0
    /\ leds[1].position[3] # 0

(***************************************************************************)
(* Properties of load_pcb_points                                            *)
(***************************************************************************)

\* The rows of the file the caller loads
FileRows == config.pcb.rows

\* The position in the file of its k-th LED row
LedRow(k) ==
    CHOOSE i \in 1..Len(FileRows) :
        /\ FileRows[i].is_led
        /\ Cardinality({j \in 1..i : FileRows[j].is_led}) = k

\* The point is the one of the row: the coordinates times 5.15 and the
\* number of the designator less one
PointOfRow(point, row) ==
    /\ point.x = (row.mid_x * 515 + 50) \div 100
    /\ point.y = (row.mid_y * 515 + 50) \div 100
    /\ point.num = row.designator - 1

\* C23: load_pcb_points returns one point for each LED row, in file order,
\* and skips the rows of other parts; it raises a parse error and returns
\* no list when a field of an LED row is not a number
C23_RowsInOrder ==
    /\ pc \in {"loaded", "transformed"} =>
        /\ \A i \in 1..Len(FileRows) : FileRows[i].is_led => FileRows[i].ok
        /\ pcb_points # <<>>
        /\ Len(pcb_points[1]) = Cardinality({i \in 1..Len(FileRows) : FileRows[i].is_led})
        /\ \A k \in 1..Len(pcb_points[1]) : PointOfRow(pcb_points[1][k], FileRows[LedRow(k)])
    /\ pc = "raised" =>
        /\ pcb_points = <<>>
        /\ \/ ~config.pcb.exists /\ err[1].kind = "FileNotFoundError"
           \/ /\ err[1].kind = "ValueError"
              /\ FileRows[err[1].line - 1].is_led
              /\ ~FileRows[err[1].line - 1].ok
              /\ \A i \in 1..(err[1].line - 2) : FileRows[i].is_led => FileRows[i].ok

\* A file of two LED rows around the row of another part whose fields are
\* not numbers was loaded
C23_Witness ==
    /\ pc = "loaded"
    /\ Len(FileRows) = 3
    /\ FileRows[1].is_led /\ FileRows[3].is_led
    /\ ~FileRows[2].is_led /\ ~FileRows[2].ok
    /\ FileRows[1] # FileRows[3]
    /\ Len(pcb_points[1]) = 2

(***************************************************************************)
(* Properties of create_parameter                                           *)
(***************************************************************************)

\* The flags of the definition the caller gave
GivenFlags == config.param_data.flags[1]

\* Is the flag, whatever its case, one the parameter type allows
AllowedFor(flag, param_type) ==
    \/ flag.letters = "none"
    \/ flag.letters = "clamp" /\ param_type = "ratio"
    \/ flag.letters = "wrap" /\ param_type \in {"ratio", "angle"}

\* C24: create_parameter takes the flag names in any letter case and
\* stores them in capitals: flags the parameter type allows are accepted,
\* and rejected as unknown are only the lists with a name that is not NONE,
\* CLAMP or WRAP in any letter case
C24_FlagsAnyCase ==
    (pc # "start" /\ config.param_data.flags # <<>> /\ GivenFlags # <<>>) =>
        /\ (\A i \in 1..Len(GivenFlags) : AllowedFor(GivenFlags[i], config.param_data.type)) =>
            /\ pc = "created"
            /\ param # <<>>
            /\ param[1].flags = [i \in 1..Len(GivenFlags) |-> upper(GivenFlags[i])]
        /\ (err # <<>> /\ err[1].what = "unknown flags") =>
            \E i \in 1..Len(GivenFlags) : GivenFlags[i].letters = "bogus"

(***************************************************************************)
(* Properties of the generators on the engine                               *)
(***************************************************************************)

\* A generator was called in this step
GeneratorCalled ==
    /\ nops' = nops + 1
    /\ lastOp' \in {"generate_faces", "generate_face_points"}

\* C25: generate_faces and generate_face_points return with the stack and
\* the current matrix of the engine as they were on entry, whatever these
\* were, and never raise the exception of an empty stack; an engine entered
\* with an empty stack is left with an empty stack, and a call of
\* generate_faces that follows another returns the same faces
C25_StackRestored ==
    [][GeneratorCalled =>
        /\ m' = m
        /\ stack' = stack
        /\ ~raised'
        /\ (lastOp' = "generate_faces") => Len(faces') = num_faces
        /\ (lastOp' = "generate_faces" /\ lastOp = "generate_faces") => faces' = faces
        /\ (lastOp' = "generate_face_points") => Len(leds') = 5]_vars

\* generate_face_points returned on an engine that was entered with a saved
\* matrix and a current matrix that is not the identity, after
\* generate_faces had made its faces on it
C25_Witness ==
    /\ lastOp = "generate_face_points"
    /\ ~raised
    /\ Len(stack) > 0
    /\ m # Identity
    /\ Len(leds) = 5
    /\ Len(faces) = num_faces

(***************************************************************************)
(* Properties of the exports                                                *)
(***************************************************************************)

\* export_json or export_cpp_header was called in this step
ExportCalled ==
    /\ ncalls' = ncalls + 1
    /\ pc' \in {"export_json", "export_cpp_header"}

\* C26: an export, and the edge calculation it makes, leaves the face list,
\* the leds of every face, the global LED list with its neighbor lists and
\* the loaded points as they were; the edge table it makes is the one of
\* the model as constructed, whether or not load_pcb_data or generate_model
\* were called before
C26_ExportsReadOnly ==
    [][ExportCalled =>
        /\ faces' = faces
        /\ leds' = leds
        /\ pcb_points' = pcb_points
        /\ (err' = <<>>) =>
            edges' = <<_calculate_edges_and_relationships(
                          _load_faces(config), _load_face_types(config)).edges>>]_vars

\* export_json returned the edges of a model that holds generated LEDs with
\* neighbors
C26_Witness ==
    /\ pc = "export_json"
    /\ err = <<>>
    /\ edges # <<>>
    /\ edges[1] # <<>>
    /\ leds # <<>>
    /\ \E i \in 1..Len(leds) : leds[i].neighbors # <<>>
    /\ \E i \in 1..Len(faces) : faces[i].leds # <<>>

(***************************************************************************)
(* Properties of the logical IDs                                            *)
(***************************************************************************)

\* Two face instances of the configuration declare the same logical ID
SharedLogicalId == \E i, j \in 1..FaceCount : i # j /\ LogicalId(i) = LogicalId(j)

\* C27: when a configuration with a non-empty face list has loaded, the
\* logical IDs of the face instances of the model are pairwise distinct;
\* a configuration that declares a logical ID twice is rejected, whatever
\* its remap_to values
C27_UniqueLogicalIds ==
    /\ (LoadedOk /\ FaceCount > 0) =>
        /\ Len(faces) = FaceCount
        /\ \A i, j \in 1..Len(faces) : i # j => faces[i].id # faces[j].id
    /\ (pc # "start" /\ SharedLogicalId) => LoadFailed

\* A configuration of several faces, one of them remapped, has loaded
C27_Witness ==
    /\ LoadedOk
    /\ FaceCount > 1
    /\ Len(faces) = FaceCount
    /\ \E i \in 1..FaceCount : config.faces[i].remap_to # <<>>

(***************************************************************************)
(* Properties of generate_model when it raises                              *)
(***************************************************************************)

\* generate_model was called in this step and raised
GenerateRaised ==
    /\ ncalls' = ncalls + 1
    /\ pc' = "generate_model"
    /\ err' # <<>>

\* C28: a call of generate_model that raises leaves the global LED list with
\* its neighbor lists and the leds list of every face as they were before
\* the call
C28_GenerateAtomic ==
    [][GenerateRaised => (leds' = leds /\ faces' = faces)]_vars

\* generate_model was called in this step
GenerateCalled ==
    /\ ncalls' = ncalls + 1
    /\ pc' = "generate_model"

\* C29: generate_model raises "PCB data must be loaded first" exactly when
\* no call of load_pcb_data has returned on the model before; after a call
\* that returned, also one for a file without LED rows, it does not
C29_RaisesIffNeverLoaded ==
    [][GenerateCalled =>
        ((err' # <<>> /\ err'[1].kind = "RuntimeError") <=> (pcb_points = <<>>))]_vars

(***************************************************************************)
(* Properties of the face adjacency                                         *)
(***************************************************************************)

\* C30: in the edge table of a loaded model, when an edge of a face A has
\* the connected face B, some edge of the face B has the connected face A
C30_AdjacencySymmetric ==
    pc = "exported" =>
        \A n \in 1..Len(EdgeList) :
            (EdgeList[n].connected_face_id # 0 - 1) =>
                \E k \in 1..Len(EdgeList) :
                    /\ EdgeList[k].face_id = EdgeList[n].connected_face_id
                    /\ EdgeList[k].connected_face_id = EdgeList[n].face_id

====
